---- MODULE Spec2Model ----
(***************************************************************************)
(* State-machine model of the goldfish-api task/project/tag services.      *)
(* The store is the relational database behind the services: one sequence  *)
(* of rows per table (a row's id is its position, rows are never removed),  *)
(* the task_tag_link association as a set of pairs, and a clock.  Every     *)
(* service method is one action: it runs in one session/transaction, so an  *)
(* error raised before commit leaves the store as it was.  For a handler    *)
(* h, h_status is the outcome the code reaches for a request in the         *)
(* current store and h the request's effect on the store.  `calls` is the   *)
(* log of the kinds of request that have changed a task's position.        *)
(*                                                                         *)
(* Conventions: NULL is 0 for ids and timestamps (ids and clock values      *)
(* start at 1); strings that are stripped or compared are sequences of      *)
(* one-character strings; sort_order (a float column) is an integer here,   *)
(* "+ 1.0" being "+ 1".                                                    *)
(***************************************************************************)
EXTENDS Integers, Sequences, FiniteSets, TLC

VARIABLES projects, tasks, tags, links, reminders, now, calls, requests

vars == <<projects, tasks, tags, links, reminders, now, calls, requests>>

\* ------------------------------------------------------------ bounds
MaxProjects == 2
MaxTasks == 3
MaxTags == 3
MaxReminders == 2
MaxTime == 3

\* ------------------------------------------------------------ constants
NULL == 0
PRIORITY_MIN == 0
PRIORITY_MAX == 4

\* Outcomes of a request: success, the HTTPException raised (404, 409, 422),
\* or an exception no handler catches (500).
OK == "OK"
NotFound == "NotFound"
Conflict == "Conflict"
ValidationError == "ValidationError"
ServerError == "ServerError"

\* ------------------------------------------------------------ strings
SP == " "

RECURSIVE lstrip(_)
lstrip(s) == IF s # <<>> /\ Head(s) = SP THEN lstrip(Tail(s)) ELSE s

RECURSIVE rstrip(_)
rstrip(s) ==
    IF s # <<>> /\ s[Len(s)] = SP THEN rstrip(SubSeq(s, 1, Len(s) - 1)) ELSE s

\* str.strip(): leading and trailing whitespace removed.
strip(s) == rstrip(lstrip(s))

\* ------------------------------------------------------------ queries on rows
Ids(rows) == 1..Len(rows)

\* Rows with deleted_at IS NULL.
Live(rows) == {i \in Ids(rows) : rows[i].deleted_at = NULL}

SetMax(S) == CHOOSE m \in S : \A x \in S : x <= m

\* A request that fails: the session is closed without commit.
Rollback == UNCHANGED vars

\* ------------------------------------------------------------ tags
\* HEX_COLOR_PATTERN, matched against the stripped value: #rgb or #rrggbb.
HexDigits == {"0", "8", "f", "F"}
color_hex_ok(v) ==
    LET s == strip(v)
    IN /\ Len(s) \in {4, 7}
       /\ s[1] = "#"
       /\ \A i \in 2..Len(s) : s[i] \in HexDigits

\* TagBase.name_not_empty / TagUpdate.name_not_empty: the stripped name,
\* or a validation error for a blank one.
name_not_empty_ok(v) == strip(v) # <<>>

\* The UNIQUE constraint of column tag.name: it covers every row of the
\* table, soft-deleted ones included.
tag_name_unique(rows) ==
    \A i, j \in Ids(rows) : rows[i].name = rows[j].name => i = j

\* create_tag's lookup of a non-deleted tag with the stripped name.
existing_tag_unstripped(name) ==
    {i \in Live(tags) : tags[i].name = name}
existing_tag(name) ==
    {i \in Live(tags) : tags[i].name = strip(name)}

\* update_tag's lookup of another non-deleted tag with the stripped name.
other_tag(tag_id, name) ==
    {i \in Live(tags) : tags[i].name = strip(name) /\ i # tag_id}

NewTag(name, color) ==
    [name |-> name, color |-> color, deleted_at |-> NULL,
     created_at |-> now, updated_at |-> now]

\* create_tag with neither the lookup nor the constraint.
create_tag_status_unchecked(name, color) ==
    IF ~name_not_empty_ok(name) \/ ~color_hex_ok(color) THEN ValidationError
    ELSE OK

create_tag_status(name, color) ==
    IF ~name_not_empty_ok(name) \/ ~color_hex_ok(color) THEN ValidationError
    ELSE IF existing_tag(name) # {} THEN Conflict
    ELSE IF ~tag_name_unique(Append(tags, NewTag(strip(name), strip(color))))
    THEN ServerError                                   \* IntegrityError
    ELSE OK

\* The tag table create_tag leaves: a raise before commit leaves it as it was.
create_tag_tags(name, color) ==
    IF create_tag_status(name, color) # OK THEN tags
    ELSE Append(tags, NewTag(strip(name), strip(color)))

create_tag(name, color) ==
    /\ create_tag_status(name, color) = OK => Len(tags) < MaxTags
    /\ tags' = create_tag_tags(name, color)
    /\ UNCHANGED <<projects, tasks, links, reminders, now, calls, requests>>

get_tags == Live(tags)

get_tag(tag_id) == IF tag_id \in Live(tags) THEN {tag_id} ELSE {}
get_tag_status(tag_id) == IF get_tag(tag_id) = {} THEN NotFound ELSE OK

\* supplied: the fields present in the request body (exclude_unset);
\* nulls: those of them sent as JSON null; name, color: the other values.
update_tag_row(tag_id, supplied, name, color) ==
    [tags[tag_id] EXCEPT
        !.name = IF "name" \in supplied THEN strip(name) ELSE @,
        !.color = IF "color" \in supplied THEN strip(color) ELSE @]

update_tag_status(tag_id, supplied, nulls, name, color) ==
    IF \/ ("name" \in supplied \ nulls /\ ~name_not_empty_ok(name))
       \/ ("color" \in supplied \ nulls /\ ~color_hex_ok(color))
    THEN ValidationError
    ELSE IF get_tag(tag_id) = {} THEN NotFound
    ELSE IF "name" \in nulls THEN ServerError           \* None.strip()
    ELSE IF "name" \in supplied /\ other_tag(tag_id, name) # {} THEN Conflict
    ELSE IF "color" \in nulls THEN ServerError          \* NOT NULL column
    ELSE IF ~tag_name_unique([tags EXCEPT ![tag_id] =
                                update_tag_row(tag_id, supplied, name, color)])
    THEN ServerError                                   \* IntegrityError
    ELSE OK

\* The tag table update_tag leaves.
update_tag_tags(tag_id, supplied, nulls, name, color) ==
    IF update_tag_status(tag_id, supplied, nulls, name, color) # OK THEN tags
    ELSE [tags EXCEPT ![tag_id] = update_tag_row(tag_id, supplied, name, color)]

update_tag(tag_id, supplied, nulls, name, color) ==
    /\ tags' = update_tag_tags(tag_id, supplied, nulls, name, color)
    /\ UNCHANGED <<projects, tasks, links, reminders, now, calls, requests>>

delete_tag_status(tag_id) == IF get_tag(tag_id) = {} THEN NotFound ELSE OK

\* The tag table delete_tag leaves.
delete_tag_tags(tag_id) ==
    IF delete_tag_status(tag_id) # OK THEN tags
    ELSE [tags EXCEPT ![tag_id].deleted_at = now]

delete_tag(tag_id) ==
    IF delete_tag_status(tag_id) # OK THEN Rollback
    ELSE /\ tags' = delete_tag_tags(tag_id)
         /\ UNCHANGED <<projects, tasks, links, reminders, now, calls, requests>>

\* ------------------------------------------------------------ projects
NewProject(name) ==
    [name |-> name, is_archived |-> FALSE, sort_order |-> 0,
     deleted_at |-> NULL, created_at |-> now, updated_at |-> now]

create_project_status(name) ==
    IF ~name_not_empty_ok(name) THEN ValidationError ELSE OK

create_project(name) ==
    IF create_project_status(name) # OK THEN Rollback
    ELSE /\ Len(projects) < MaxProjects
         /\ projects' = Append(projects, NewProject(strip(name)))
         /\ UNCHANGED <<tasks, tags, links, reminders, now, calls, requests>>

\* Non-deleted, non-archived projects.
get_projects == {i \in Live(projects) : ~projects[i].is_archived}

get_project(project_id) ==
    IF project_id \in Live(projects) THEN {project_id} ELSE {}
get_project_status(project_id) ==
    IF get_project(project_id) = {} THEN NotFound ELSE OK

\* An update_project body: supplied are the fields present in it, nulls
\* those of them sent as null.  The row the setattr loop leaves:
updated_project(p, supplied, name, is_archived, sort_order) ==
    [p EXCEPT
        !.name = IF "name" \in supplied THEN strip(name) ELSE @,
        !.is_archived = IF "is_archived" \in supplied THEN is_archived ELSE @,
        !.sort_order = IF "sort_order" \in supplied THEN sort_order ELSE @]

update_project_status(project_id, supplied, nulls, name) ==
    IF "name" \in supplied \ nulls /\ ~name_not_empty_ok(name)
    THEN ValidationError
    ELSE IF get_project(project_id) = {} THEN NotFound
    ELSE IF supplied \cap nulls # {} THEN ServerError   \* NOT NULL columns
    ELSE OK

\* The project table update_project leaves.
update_project_projects(project_id, supplied, nulls, name, is_archived, sort_order) ==
    IF update_project_status(project_id, supplied, nulls, name) # OK
    THEN projects
    ELSE [projects EXCEPT ![project_id] =
            updated_project(@, supplied, name, is_archived, sort_order)]

update_project(project_id, supplied, nulls, name, is_archived, sort_order) ==
    IF update_project_status(project_id, supplied, nulls, name) # OK
    THEN Rollback
    ELSE /\ projects' = update_project_projects(project_id, supplied, nulls,
                                                name, is_archived, sort_order)
         /\ UNCHANGED <<tasks, tags, links, reminders, now, calls, requests>>

\* The rows the UPDATE of delete_project matches: the project's non-deleted
\* tasks.
project_tasks_none(project_id) == {}
project_tasks(project_id) ==
    {i \in Live(tasks) : tasks[i].project_id = project_id}

delete_project_status(project_id) ==
    IF get_project(project_id) = {} THEN NotFound ELSE OK

\* The task table and the project table delete_project leaves.
delete_project_tasks(project_id) ==
    IF delete_project_status(project_id) # OK THEN tasks
    ELSE [i \in Ids(tasks) |->
            IF i \in project_tasks(project_id)
            THEN [tasks[i] EXCEPT !.project_id = NULL]
            ELSE tasks[i]]
delete_project_projects(project_id) ==
    IF delete_project_status(project_id) # OK THEN projects
    ELSE [projects EXCEPT ![project_id].deleted_at = now]

delete_project(project_id) ==
    IF delete_project_status(project_id) # OK THEN Rollback
    ELSE /\ tasks' = delete_project_tasks(project_id)
         /\ projects' = delete_project_projects(project_id)
         /\ UNCHANGED <<tags, links, reminders, now, calls, requests>>

\* ------------------------------------------------------------ dates
\* A due_date string that matches ISO_DATE_PATTERN is the pair <<month, day>>
\* of a fixed year; <<>> is an absent, null or empty due_date.  Dates and
\* clock values share one axis, counted in days: `now` is also date.today().
DaysIn(m) == IF m = 2 THEN 28 ELSE IF m \in {4, 6, 9, 11} THEN 30 ELSE 31

\* date.fromisoformat raises ValueError for a date that does not exist.
fromisoformat_ok(d) == d[1] \in 1..12 /\ d[2] \in 1..DaysIn(d[1])

\* TaskService._parse_date, for a date that exists: its day number.
parse_date(d) == IF d = <<>> THEN NULL ELSE (d[1] - 1) * 31 + d[2]

\* ------------------------------------------------------------ tasks
SeqToSet(q) == {q[i] : i \in 1..Len(q)}

\* TaskService._validate_project_exists
validate_project_exists_any(project_id) == project_id \in Ids(projects)
validate_project_exists(project_id) == project_id \in Live(projects)

\* TaskService._validate_tag_ids_exist: the ids that are missing.
missing_tags(tag_ids) == SeqToSet(tag_ids) \ Live(tags)

\* create_task's sort_order for the next task: one past the largest
\* sort_order of the non-deleted tasks, 0.0 when there is none.
next_order_no_step ==
    IF Live(tasks) = {} THEN 0
    ELSE SetMax({tasks[i].sort_order : i \in Live(tasks)})
next_order_all_rows ==
    IF tasks = <<>> THEN 0
    ELSE SetMax({tasks[i].sort_order : i \in Ids(tasks)}) + 1
next_order ==
    IF Live(tasks) = {} THEN 0
    ELSE SetMax({tasks[i].sort_order : i \in Live(tasks)}) + 1

NoDuplicates(q) == \A i, j \in 1..Len(q) : q[i] = q[j] => i = j

NewTask(title, notes, priority, due_date, project_id) ==
    [title |-> title, notes |-> notes, notes_plain |-> notes,
     is_completed |-> FALSE, completed_at |-> NULL, priority |-> priority,
     due_date |-> parse_date(due_date), project_id |-> project_id,
     sort_order |-> next_order, deleted_at |-> NULL,
     created_at |-> now, updated_at |-> now]

create_task_status(title, notes, priority, due_date, project_id, tag_ids) ==
    IF ~name_not_empty_ok(title) \/ priority \notin PRIORITY_MIN..PRIORITY_MAX
    THEN ValidationError
    ELSE IF project_id # NULL /\ ~validate_project_exists(project_id)
    THEN NotFound
    ELSE IF missing_tags(tag_ids) # {} THEN ValidationError
    ELSE IF due_date # <<>> /\ ~fromisoformat_ok(due_date)
    THEN ServerError                           \* uncaught ValueError
    ELSE IF ~NoDuplicates(tag_ids)
    THEN ServerError                           \* IntegrityError on the link
    ELSE OK

\* The task table and the task-tag links create_task leaves: a raise before
\* commit leaves them as they were.
create_task_tasks(title, notes, priority, due_date, project_id, tag_ids) ==
    IF create_task_status(title, notes, priority, due_date, project_id,
                          tag_ids) # OK
    THEN tasks
    ELSE Append(tasks, NewTask(strip(title), notes, priority, due_date,
                               project_id))
create_task_links(title, notes, priority, due_date, project_id, tag_ids) ==
    IF create_task_status(title, notes, priority, due_date, project_id,
                          tag_ids) # OK
    THEN links
    ELSE links \cup {<<Len(tasks) + 1, t>> : t \in SeqToSet(tag_ids)}

create_task(title, notes, priority, due_date, project_id, tag_ids) ==
    IF create_task_status(title, notes, priority, due_date, project_id,
                          tag_ids) # OK
    THEN Rollback
    ELSE /\ Len(tasks) < MaxTasks
         /\ tasks' = create_task_tasks(title, notes, priority, due_date,
                                       project_id, tag_ids)
         /\ links' = create_task_links(title, notes, priority, due_date,
                                       project_id, tag_ids)
         /\ UNCHANGED <<projects, tags, reminders, now, calls, requests>>

\* The lookup of a task by id that update, delete and toggle start with.
task_status_any(task_id) == IF task_id \in Ids(tasks) THEN OK ELSE NotFound
task_status(task_id) == IF task_id \in Live(tasks) THEN OK ELSE NotFound

\* The task table delete_task leaves.
delete_task_tasks(task_id) ==
    IF task_status(task_id) # OK THEN tasks
    ELSE [tasks EXCEPT ![task_id].deleted_at = now]

delete_task(task_id) ==
    IF task_status(task_id) # OK THEN Rollback
    ELSE /\ tasks' = delete_task_tasks(task_id)
         /\ calls' = calls \cup {"delete_task"}
         /\ UNCHANGED <<projects, tags, links, reminders, now, requests>>

\* complete_toggle's new (is_completed, completed_at) pair.
toggled_keep_stamp(t) == [t EXCEPT !.is_completed = ~@]
toggled_always_stamp(t) ==
    [t EXCEPT !.is_completed = ~@, !.completed_at = now]
toggled(t) ==
    [t EXCEPT !.is_completed = ~@,
              !.completed_at = IF t.is_completed THEN NULL ELSE now]

\* The task table complete_toggle leaves.
complete_toggle_tasks(task_id) ==
    IF task_status(task_id) # OK THEN tasks
    ELSE [tasks EXCEPT ![task_id] = toggled(@)]

complete_toggle(task_id) ==
    IF task_status(task_id) # OK THEN Rollback
    ELSE /\ tasks' = complete_toggle_tasks(task_id)
         /\ UNCHANGED <<projects, tags, links, reminders, now, calls, requests>>

\* The rows bulk_complete selects.
bulk_targets_with_deleted(project_id) ==
    {i \in Ids(tasks) :
        tasks[i].project_id = project_id /\ ~tasks[i].is_completed}
bulk_targets(project_id) ==
    {i \in Live(tasks) :
        tasks[i].project_id = project_id /\ ~tasks[i].is_completed}

bulk_complete_status(project_id) ==
    IF validate_project_exists(project_id) THEN OK ELSE NotFound

\* The count bulk_complete returns.
bulk_complete_count(project_id) == Cardinality(bulk_targets(project_id))

\* The task table bulk_complete leaves.
bulk_complete_tasks(project_id) ==
    IF bulk_complete_status(project_id) # OK THEN tasks
    ELSE [i \in Ids(tasks) |->
            IF i \in bulk_targets(project_id)
            THEN [tasks[i] EXCEPT !.is_completed = TRUE,
                                  !.completed_at = now]
            ELSE tasks[i]]

bulk_complete(project_id) ==
    IF bulk_complete_status(project_id) # OK THEN Rollback
    ELSE /\ tasks' = bulk_complete_tasks(project_id)
         /\ UNCHANGED <<projects, tags, links, reminders, now, calls, requests>>

\* A column that is NULL where 0 is a value of its own (priority NONE = 0).
PriorityNull == NULL - 1

\* An update_task body d: d.supplied are the fields present in it
\* (model_dump(exclude_unset=True)), d.nulls those of them sent as null; an
\* empty due_date string validates to None.
IsNone(d, f) == f \in d.nulls \/ (f = "due_date" /\ d.due_date = <<>>)
HasValue(d, f) == f \in d.supplied /\ ~IsNone(d, f)

\* The row update_task's setattr loop leaves: supplied fields overwritten,
\* the others kept.
updated_all_fields(t, d) ==
    [t EXCEPT
        !.title = strip(d.title),
        !.notes = d.notes,
        !.priority = d.priority,
        !.due_date = parse_date(d.due_date),
        !.project_id = d.project_id,
        !.sort_order = d.sort_order]
updated(t, d) ==
    [t EXCEPT
        !.title = IF "title" \in d.supplied THEN strip(d.title) ELSE @,
        !.notes = IF "notes" \in d.supplied
                  THEN (IF IsNone(d, "notes") THEN <<>> ELSE d.notes) ELSE @,
        !.priority = IF "priority" \in d.supplied
                     THEN (IF IsNone(d, "priority") THEN PriorityNull
                           ELSE d.priority)
                     ELSE @,
        !.due_date = IF "due_date" \in d.supplied
                     THEN (IF IsNone(d, "due_date") THEN NULL
                           ELSE parse_date(d.due_date))
                     ELSE @,
        !.project_id = IF "project_id" \in d.supplied
                       THEN (IF IsNone(d, "project_id") THEN NULL
                             ELSE d.project_id)
                       ELSE @,
        !.sort_order = IF "sort_order" \in d.supplied THEN d.sort_order ELSE @]

\* update_task's replacement of the task's links when tag_ids is supplied.
replaced_links(task_id, tag_ids) ==
    {l \in links : l[1] # task_id} \cup {<<task_id, t>> : t \in SeqToSet(tag_ids)}

update_task_status(task_id, d) ==
    IF \/ (HasValue(d, "title") /\ ~name_not_empty_ok(d.title))
       \/ (HasValue(d, "priority") /\ d.priority \notin PRIORITY_MIN..PRIORITY_MAX)
    THEN ValidationError
    ELSE IF task_status(task_id) # OK THEN NotFound
    ELSE IF HasValue(d, "project_id") /\ ~validate_project_exists(d.project_id)
    THEN NotFound
    ELSE IF HasValue(d, "tag_ids") /\ missing_tags(d.tag_ids) # {}
    THEN ValidationError
    ELSE IF HasValue(d, "tag_ids") /\ ~NoDuplicates(d.tag_ids)
    THEN ServerError                           \* IntegrityError on the link
    ELSE IF HasValue(d, "due_date") /\ ~fromisoformat_ok(d.due_date)
    THEN ValidationError
    ELSE IF {"title", "sort_order"} \cap d.supplied \cap d.nulls # {}
    THEN ServerError                           \* NOT NULL columns
    ELSE OK

\* The task-tag links in update_task's session once its DELETE and INSERT
\* statements have run: they run after the lookups of the task, the
\* project and the tags, and before the due_date is parsed.
update_task_session_links(task_id, d) ==
    IF /\ ~(HasValue(d, "title") /\ ~name_not_empty_ok(d.title))
       /\ ~(HasValue(d, "priority")
             /\ d.priority \notin PRIORITY_MIN..PRIORITY_MAX)
       /\ task_status(task_id) = OK
       /\ (HasValue(d, "project_id") => validate_project_exists(d.project_id))
       /\ HasValue(d, "tag_ids")
       /\ missing_tags(d.tag_ids) = {}
       /\ NoDuplicates(d.tag_ids)
    THEN replaced_links(task_id, d.tag_ids) ELSE links

update_task_links_no_rollback(task_id, d) ==
    update_task_session_links(task_id, d)

\* The task-tag links update_task leaves: those of its session if it
\* commits, the old ones if it raises and the session is closed.
update_task_links(task_id, d) ==
    IF update_task_status(task_id, d) = OK
    THEN update_task_session_links(task_id, d) ELSE links

\* The task table update_task leaves.
update_task_tasks(task_id, d) ==
    IF update_task_status(task_id, d) # OK THEN tasks
    ELSE [tasks EXCEPT ![task_id] = updated(@, d)]

update_task(task_id, d) ==
    IF update_task_status(task_id, d) # OK THEN Rollback
    ELSE /\ tasks' = update_task_tasks(task_id, d)
         /\ links' = update_task_links(task_id, d)
         /\ calls' = IF "sort_order" \in d.supplied
                     THEN calls \cup {"update_sort_order"} ELSE calls
         /\ UNCHANGED <<projects, tags, reminders, now, requests>>

\* One UPDATE of reorder: the item's task gets the item's sort_order if it
\* is not deleted; an unknown or deleted id matches no row.
reorder_item_any_row(ts, item) ==
    IF item[1] \in Ids(ts)
    THEN [ts EXCEPT ![item[1]].sort_order = item[2]] ELSE ts
reorder_item(ts, item) ==
    IF item[1] \in Live(ts)
    THEN [ts EXCEPT ![item[1]].sort_order = item[2]] ELSE ts

RECURSIVE reorder_items(_, _)
reorder_items(ts, items) ==
    IF items = <<>> THEN ts
    ELSE reorder_items(reorder_item(ts, Head(items)), Tail(items))

\* TaskReorder.items_not_empty
reorder_status(items) == IF items = <<>> THEN ValidationError ELSE OK

\* items: a sequence of <<id, sort_order>> pairs.
reorder(items) ==
    IF reorder_status(items) # OK THEN Rollback
    ELSE /\ tasks' = reorder_items(tasks, items)
         /\ calls' = calls \cup {"reorder"}
         /\ UNCHANGED <<projects, tags, links, reminders, now, requests>>

\* ------------------------------------------------------------ reminders
NewReminder(task_id, remind_at) ==
    [task_id |-> task_id, remind_at |-> remind_at, is_fired |-> FALSE,
     deleted_at |-> NULL, created_at |-> now, updated_at |-> now]

\* create_reminder's lookup of the task.
reminder_task(task_id) == task_id \in Ids(tasks)

create_reminder_status(task_id) ==
    IF reminder_task(task_id) THEN OK ELSE NotFound

create_reminder(task_id, remind_at) ==
    IF create_reminder_status(task_id) # OK THEN Rollback
    ELSE /\ Len(reminders) < MaxReminders
         /\ reminders' = Append(reminders, NewReminder(task_id, remind_at))
         /\ UNCHANGED <<projects, tasks, tags, links, now, calls, requests>>

\* The lookup of a reminder by id that delete and fire start with.
reminder_status_any(id) == IF id \in Ids(reminders) THEN OK ELSE NotFound
reminder_status(id) == IF id \in Live(reminders) THEN OK ELSE NotFound

\* The reminder table delete_reminder and fire_reminder leave.
delete_reminder_reminders(id) ==
    IF reminder_status(id) # OK THEN reminders
    ELSE [reminders EXCEPT ![id].deleted_at = now]
fire_reminder_reminders(id) ==
    IF reminder_status(id) # OK THEN reminders
    ELSE [reminders EXCEPT ![id].is_fired = TRUE]

delete_reminder(id) ==
    IF reminder_status(id) # OK THEN Rollback
    ELSE /\ reminders' = delete_reminder_reminders(id)
         /\ UNCHANGED <<projects, tasks, tags, links, now, calls, requests>>

fire_reminder(id) ==
    IF reminder_status(id) # OK THEN Rollback
    ELSE /\ reminders' = fire_reminder_reminders(id)
         /\ UNCHANGED <<projects, tasks, tags, links, now, calls, requests>>

\* ------------------------------------------------------------ ordering
\* ORDER BY: key maps a row's id to a sequence of integers, compared
\* lexicographically; rows with equal keys come in id order.
RECURSIVE KeyLess(_, _)
KeyLess(a, b) ==
    IF a = <<>> THEN b # <<>>
    ELSE IF b = <<>> THEN FALSE
    ELSE IF Head(a) # Head(b) THEN Head(a) < Head(b)
    ELSE KeyLess(Tail(a), Tail(b))

Before(i, j, key) ==
    KeyLess(key[i], key[j]) \/ (~KeyLess(key[j], key[i]) /\ i < j)

RECURSIVE OrderBy(_, _)
OrderBy(S, key) ==
    IF S = {} THEN <<>>
    ELSE LET first == CHOOSE i \in S : \A j \in S \ {i} : Before(i, j, key)
         IN <<first>> \o OrderBy(S \ {first}, key)

Neg(k) == [i \in 1..Len(k) |-> 0 - k[i]]
Bit(b) == IF b THEN 1 ELSE 0

\* Task.priority is SAEnum(PriorityLevel): the column holds the member's
\* name. SQLite has no enum type, so the column is a VARCHAR as wide as the
\* longest name and ORDER BY compares the names byte by byte; a PostgreSQL
\* enum type compares in declaration order, which is the order of the values.
PriorityNames ==
    << <<"N", "O", "N", "E">>, <<"L", "O", "W">>,
       <<"M", "E", "D", "I", "U", "M">>, <<"H", "I", "G", "H">>,
       <<"U", "R", "G", "E", "N", "T">> >>
NameWidth == 6
Alphabet ==
    <<"A", "B", "C", "D", "E", "F", "G", "H", "I", "J", "K", "L", "M",
      "N", "O", "P", "Q", "R", "S", "T", "U", "V", "W", "X", "Y", "Z">>
Ord(c) == CHOOSE k \in 1..Len(Alphabet) : Alphabet[k] = c
database_url == "sqlite"

\* The sort key of a priority column value; NULL sorts before every value.
priority_key_in(dialect, p) ==
    IF p \notin PRIORITY_MIN..PRIORITY_MAX THEN [k \in 1..NameWidth |-> 0]
    ELSE IF dialect = "sqlite"
    THEN LET name == PriorityNames[p + 1]
         IN [k \in 1..NameWidth |-> IF k <= Len(name) THEN Ord(name[k]) ELSE 0]
    ELSE [k \in 1..NameWidth |-> IF k = 1 THEN p + 1 ELSE 0]
priority_key(p) == priority_key_in(database_url, p)

\* ------------------------------------------------------------ task queries
\* A get_tasks query f: f.given are the filters supplied (not None).
task_matches_truthy(i, f) ==
    /\ ("project_id" \in f.given => tasks[i].project_id = f.project_id)
    /\ ("is_completed" \in f.given /\ f.is_completed => tasks[i].is_completed)
    /\ ("priority" \in f.given /\ f.priority # 0
            => tasks[i].priority = f.priority)
    /\ ("due_date" \in f.given /\ f.due_date # <<>>
            => tasks[i].due_date = parse_date(f.due_date))
task_matches(i, f) ==
    /\ ("project_id" \in f.given => tasks[i].project_id = f.project_id)
    /\ ("is_completed" \in f.given => tasks[i].is_completed = f.is_completed)
    /\ ("priority" \in f.given => tasks[i].priority = f.priority)
    /\ ("due_date" \in f.given /\ f.due_date # <<>>
            => tasks[i].due_date = parse_date(f.due_date))

\* The rows a task query starts from: Task.deleted_at IS NULL.
visible_tasks_all == Ids(tasks)
visible_tasks == Live(tasks)

\* The characters of the model's strings in the order of their bytes.
Ascii ==
    <<" ", "#", "%", "0", "1", "2", "3", "4", "5", "6", "7", "8", "9",
      "A", "B", "C", "D", "E", "F", "G", "H", "I", "J", "K", "L", "M",
      "N", "O", "P", "Q", "R", "S", "T", "U", "V", "W", "X", "Y", "Z", "_",
      "a", "b", "c", "d", "e", "f", "g", "h", "i", "j", "k", "l", "m",
      "n", "o", "p", "q", "r", "s", "t", "u", "v", "w", "x", "y", "z">>
Code(c) == CHOOSE k \in 1..Len(Ascii) : Ascii[k] = c

\* The sort key of a text column value among values of at most w characters.
text_key(t, w) == [k \in 1..w |-> IF k <= Len(t) THEN Code(t[k]) ELSE 0]
TextWidth == SetMax({0} \cup {Len(tasks[j].title) : j \in Ids(tasks)}
                        \cup {Len(tasks[j].notes) : j \in Ids(tasks)})

\* Attributes of the Task class that are not columns and have no asc().
NonColumnAttributes == {"metadata", "registry", "__tablename__"}

\* getattr(Task, sort_by, Task.sort_order): the column of that name if
\* Task has one, sort_order if Task has no such attribute. due_time,
\* start_date and sort_order_board keep their defaults in the model.
order_col(i, sort_by) ==
    CASE sort_by = "created_at" -> <<tasks[i].created_at>>
      [] sort_by = "updated_at" -> <<tasks[i].updated_at>>
      [] sort_by = "due_date" -> <<tasks[i].due_date>>
      [] sort_by = "priority" -> priority_key(tasks[i].priority)
      [] sort_by = "title" -> text_key(tasks[i].title, TextWidth)
      [] sort_by = "notes" -> text_key(tasks[i].notes, TextWidth)
      [] sort_by = "notes_plain" -> text_key(tasks[i].notes_plain, TextWidth)
      [] sort_by = "is_completed" -> <<Bit(tasks[i].is_completed)>>
      [] sort_by = "completed_at" -> <<tasks[i].completed_at>>
      [] sort_by = "deleted_at" -> <<tasks[i].deleted_at>>
      [] sort_by = "project_id" -> <<tasks[i].project_id>>
      [] sort_by = "id" -> <<i>>
      [] sort_by \in {"due_time", "start_date", "sort_order_board"} -> <<NULL>>
      [] OTHER -> <<tasks[i].sort_order>>

Drop(q, n) == IF n >= Len(q) THEN <<>> ELSE SubSeq(q, n + 1, Len(q))
Take(q, n) == IF n >= Len(q) THEN q ELSE SubSeq(q, 1, n)

get_tasks_status(f) ==
    IF "priority" \in f.given /\ f.priority \notin PRIORITY_MIN..PRIORITY_MAX
    THEN ValidationError
    ELSE IF "due_date" \in f.given /\ f.due_date # <<>>
            /\ ~fromisoformat_ok(f.due_date)
    THEN ValidationError
    ELSE IF f.sort_by \in NonColumnAttributes
    THEN ServerError                           \* AttributeError: no asc()
    ELSE OK

\* f.limit = NULL: no limit.
get_tasks(f) ==
    IF get_tasks_status(f) # OK THEN <<>>
    ELSE LET S == {i \in visible_tasks : task_matches(i, f)}
             key == [i \in S |-> IF f.order = "desc"
                                  THEN Neg(order_col(i, f.sort_by))
                                  ELSE order_col(i, f.sort_by)]
             sorted == OrderBy(S, key)
             rest == Drop(sorted, f.offset)
         IN IF f.limit = NULL THEN rest ELSE Take(rest, f.limit)

get_task(task_id) == IF task_id \in visible_tasks THEN <<task_id>> ELSE <<>>
get_task_status(task_id) == IF get_task(task_id) = <<>> THEN NotFound ELSE OK

\* ------------------------------------------------------------ views
get_inbox_tasks_by_sort_order ==
    OrderBy(visible_tasks, [i \in visible_tasks |-> <<tasks[i].sort_order>>])
get_inbox_tasks ==
    OrderBy(visible_tasks,
            [i \in visible_tasks |->
                <<Bit(tasks[i].is_completed), tasks[i].sort_order>>])

get_today_tasks_in(dialect) ==
    LET S == {i \in visible_tasks :
                /\ ~tasks[i].is_completed
                /\ tasks[i].due_date # NULL
                /\ tasks[i].due_date <= now}
    IN OrderBy(S, [i \in S |->
                    Neg(priority_key_in(dialect, tasks[i].priority))
                    \o <<tasks[i].due_date, tasks[i].sort_order>>])
get_today_tasks == get_today_tasks_in(database_url)

get_completed_tasks_status(days) ==
    IF ~(1 <= days /\ days <= 365) THEN ValidationError ELSE OK

get_completed_tasks_all_time(days) ==
    LET S == {i \in visible_tasks : tasks[i].is_completed}
    IN OrderBy(S, [i \in S |-> <<0 - tasks[i].completed_at>>])
get_completed_tasks(days) ==
    IF ~(1 <= days /\ days <= 365) THEN <<>>
    ELSE LET S == {i \in visible_tasks :
                    /\ tasks[i].is_completed
                    /\ tasks[i].completed_at # NULL
                    /\ tasks[i].completed_at >= now - days}
         IN OrderBy(S, [i \in S |-> <<0 - tasks[i].completed_at>>])

\* ------------------------------------------------------------ search
MAX_QUERY_LEN == 100
SEARCH_LIMIT == 50

lower(c) == IF c = "M" THEN "m" ELSE IF c = "K" THEN "k" ELSE c

\* SQL LIKE, case-insensitive (ilike): % matches any run of characters,
\* _ any one character.
RECURSIVE like(_, _)
like(p, s) ==
    IF p = <<>> THEN s = <<>>
    ELSE IF Head(p) = "%"
    THEN like(Tail(p), s) \/ (s # <<>> /\ like(p, Tail(s)))
    ELSE /\ s # <<>>
         /\ (Head(p) = "_" \/ lower(Head(p)) = lower(Head(s)))
         /\ like(Tail(p), Tail(s))

\* SearchService._normalize_query: <<>> stands for None.
normalize_query(q) ==
    LET s == strip(q)
    IN IF s = <<>> \/ Len(s) > MAX_QUERY_LEN THEN <<>> ELSE s

\* project_id = NULL: no project filter.
search(q, project_id, include_completed) ==
    LET n == normalize_query(q)
        pat == <<"%">> \o n \o <<"%">>
        S == {i \in visible_tasks :
                /\ \/ like(pat, tasks[i].title)
                   \/ like(pat, tasks[i].notes_plain)
                   \/ like(pat, tasks[i].notes)
                /\ (project_id # NULL => tasks[i].project_id = project_id)
                /\ (~include_completed => ~tasks[i].is_completed)}
    IN IF n = <<>> THEN <<>>
       ELSE Take(OrderBy(S, [i \in S |-> <<i>>]), SEARCH_LIMIT)

\* get_upcoming_reminders: not deleted, not fired, by remind_at.
upcoming == {r \in Live(reminders) : ~reminders[r].is_fired}

get_upcoming_reminders ==
    OrderBy(upcoming, [r \in upcoming |-> <<reminders[r].remind_at>>])

\* ------------------------------------------------------------ clock
\* Time passes between requests.
Tick ==
    /\ now < MaxTime
    /\ now' = now + 1
    /\ UNCHANGED <<projects, tasks, tags, links, reminders, calls, requests>>

\* ------------------------------------------------------------ inputs
Work == <<"W">>
WorkPadded == <<SP, "W", SP>>
Blank == <<SP>>
TagNames == {Work, WorkPadded, <<"x">>, <<"y">>, Blank}
Violet == <<"#", "8", "f", "f">>
White == <<"#", "f", "f", "F", "f", "f", "F">>
NotHex == <<"r", "e", "d">>

Milk == <<"m", "i", "l", "k">>
NoDate == <<>>
Jan1 == <<1, 1>>
Feb30 == <<2, 30>>

\* An update_task body with only the given fields supplied.
Body(supplied, nulls, title, notes, priority, due_date, project_id, sort_order, tag_ids) ==
    [supplied |-> supplied, nulls |-> nulls, title |-> title, notes |-> notes,
     priority |-> priority, due_date |-> due_date, project_id |-> project_id,
     sort_order |-> sort_order, tag_ids |-> tag_ids]
EmptyBody == Body({}, {}, Milk, <<>>, 0, NoDate, NULL, 0, <<>>)

\* ------------------------------------------------------------ the store
\* The requests that run at the same time, each in a session of its own,
\* and what a request that is not under way holds.
Clients == {"a", "b"}
Idle == [op |-> "idle", task_id |-> NULL, project_id |-> NULL, sort_order |-> NULL]

Init ==
    /\ projects = <<>>
    /\ tasks = <<>>
    /\ tags = <<>>
    /\ links = {}
    /\ reminders = <<>>
    /\ now = 1
    /\ calls = {}
    /\ requests = [c \in Clients |-> Idle]

\* Tag requests.
CreateTag == \E n \in TagNames, c \in {Violet, NotHex} : create_tag(n, c)
UpdateTag ==
    \E id \in 1..MaxTags, n \in {Work, WorkPadded, <<"x">>, Blank} :
        \/ update_tag(id, {"name"}, {}, n, White)
        \/ update_tag(id, {"name", "color"}, {}, n, White)
        \/ update_tag(id, {"color"}, {}, n, NotHex)
        \/ update_tag(id, {"name", "color"}, {"name"}, n, White)
        \/ update_tag(id, {"color"}, {"color"}, n, White)
DeleteTag == \E id \in 1..MaxTags : delete_tag(id)

NextTags == CreateTag \/ UpdateTag \/ DeleteTag

SpecTags == Init /\ [][NextTags]_vars

\* Project requests, and task requests that put a task in a project: in
\* SpecProjects every task starts in a project and update_task moves it to
\* a project, so only delete_project leaves a task without one.
Errands == <<"E">>
CreateProject == \E n \in {Errands, Blank} : create_project(n)
DeleteProject == \E id \in 1..MaxProjects : delete_project(id)

\* Task requests, on a list of at most FewTasks.
FewTasks == MaxTasks - 1
CreateTaskIn ==
    /\ Len(tasks) < FewTasks
    /\ \E p \in 1..MaxProjects : create_task(Milk, <<>>, 0, NoDate, p, <<>>)
DeleteTask == \E id \in 1..MaxTasks : delete_task(id)
CompleteToggle == \E id \in 1..MaxTasks : complete_toggle(id)
BulkComplete == \E p \in 1..MaxProjects : bulk_complete(p)
MoveTask ==
    \E id \in 1..MaxTasks, p \in 1..MaxProjects :
        update_task(id, [EmptyBody EXCEPT !.supplied = {"project_id"},
                                         !.project_id = p])

NextProjects ==
    \/ CreateProject \/ DeleteProject
    \/ CreateTaskIn \/ DeleteTask \/ MoveTask

SpecProjects == Init /\ [][NextProjects]_vars

\* Requests that place tasks in the list.
Soon == <<"s">>
SortOrders == {0, 5}
ReorderItems == (1..MaxTasks) \X SortOrders
ReorderBodies ==
    {<<>>} \cup {<<a>> : a \in ReorderItems}
           \cup {<<a, b>> : a \in ReorderItems, b \in ReorderItems}

CreateTask ==
    /\ Len(tasks) < FewTasks
    /\ create_task(Milk, <<>>, 0, NoDate, NULL, <<>>)
Retitle ==
    \E id \in 1..MaxTasks :
        update_task(id, [EmptyBody EXCEPT !.supplied = {"title"},
                                         !.title = Soon])
SetSortOrder ==
    \E id \in 1..MaxTasks :
        update_task(id, [EmptyBody EXCEPT !.supplied = {"sort_order"},
                                         !.sort_order = 5])
Reorder == \E items \in ReorderBodies : reorder(items)

NextOrder ==
    \/ CreateTask \/ DeleteTask \/ CompleteToggle
    \/ Retitle \/ SetSortOrder \/ Reorder

SpecOrder == Init /\ [][NextOrder]_vars

\* Requests that complete tasks, in one project or in none.
CreateOneProject ==
    /\ Len(projects) < MaxProjects - 1
    /\ create_project(Errands)
CreateTaskMaybeIn ==
    /\ Len(tasks) < FewTasks
    /\ \E p \in 0..1 : create_task(Milk, <<>>, 0, NoDate, p, <<>>)
Reprioritize ==
    \E id \in 1..MaxTasks :
        update_task(id, [EmptyBody EXCEPT !.supplied = {"priority"},
                                         !.priority = PRIORITY_MAX])
ReorderOne == \E id \in 1..MaxTasks : reorder(<<<<id, 5>>>>)

NextComplete ==
    \/ CreateOneProject \/ CreateTaskMaybeIn \/ DeleteTask
    \/ CompleteToggle \/ BulkComplete \/ Reprioritize \/ ReorderOne

SpecComplete == Init /\ [][NextComplete]_vars

\* Requests of every kind on a small store: one project, two tasks, two
\* tags and one reminder fewer than the other specifications allow.
FewerTasks == MaxTasks - 2
FewProjects == MaxProjects - 1
FewTags == MaxTags - 2
FewReminders == MaxReminders - 1

CreateFewProjects ==
    /\ Len(projects) < FewProjects
    /\ create_project(Errands)
DeleteFewProjects == \E id \in 1..FewProjects : delete_project(id)
CreateDueTask ==
    /\ Len(tasks) < FewerTasks
    /\ \E p \in 0..1 : create_task(Milk, <<>>, 0, Jan1, p, <<>>)
DeleteFewerTasks == \E id \in 1..FewerTasks : delete_task(id)
ToggleFewerTasks == \E id \in 1..FewerTasks : complete_toggle(id)
BulkCompleteFew == \E p \in 1..FewProjects : bulk_complete(p)
UnassignTask ==
    \E id \in 1..FewerTasks :
        update_task(id, [EmptyBody EXCEPT !.supplied = {"project_id"},
                                         !.nulls = {"project_id"}])
ReorderFew == \E id \in 1..FewerTasks : reorder(<<<<id, 5>>>>)
CreateFewTags ==
    /\ Len(tags) < FewTags
    /\ create_tag(Work, Violet)
DeleteFewTags == \E id \in 1..FewTags : delete_tag(id)
CreateFewReminders ==
    /\ Len(reminders) < FewReminders
    /\ create_reminder(1, now)
DeleteFewReminders == \E id \in 1..FewReminders : delete_reminder(id)

NextSoftDelete ==
    \/ CreateFewProjects \/ DeleteFewProjects
    \/ CreateDueTask \/ DeleteFewerTasks \/ ToggleFewerTasks \/ BulkCompleteFew
    \/ UnassignTask \/ ReorderFew
    \/ CreateFewTags \/ DeleteFewTags
    \/ CreateFewReminders \/ DeleteFewReminders

SpecSoftDelete == Init /\ [][NextSoftDelete]_vars

\* ------------------------------------------------------------ tag claims
LiveTagNamed(n) ==
    {i \in Ids(tags) : tags[i].deleted_at = NULL /\ tags[i].name = n}
DeletedTagNamed(n) ==
    {i \in Ids(tags) : tags[i].deleted_at # NULL /\ tags[i].name = n}
TagColors == {Violet, White, NotHex}
NameBodies == {{"name"}, {"name", "color"}}

\* C5: in every reachable state no two tags with deleted_at unset have the
\* same name.
C5_LiveTagNamesUnique ==
    \A i, j \in Ids(tags) :
        (/\ tags[i].deleted_at = NULL
         /\ tags[j].deleted_at = NULL
         /\ tags[i].name = tags[j].name) => i = j

\* C5 witness: two live tags stand next to a deleted one, and a create and
\* a rename that would duplicate a live name are both refused.
C5_Witness ==
    /\ Cardinality(Live(tags)) >= 2
    /\ Live(tags) # Ids(tags)
    /\ \E i \in Live(tags) :
          /\ create_tag_status(tags[i].name, Violet) = Conflict
          /\ \E j \in Live(tags) \ {i} :
                update_tag_status(j, {"name"}, {}, tags[i].name, White) = Conflict

\* C6: create_tag with a valid name that no live tag holds, but a
\* soft-deleted tag does, succeeds and adds a new non-deleted tag of that
\* name; and update_tag may rename a live tag to such a name.
C6_DeletedNameReusable ==
    \A n \in TagNames :
        (/\ name_not_empty_ok(n)
         /\ LiveTagNamed(strip(n)) = {}
         /\ DeletedTagNamed(strip(n)) # {})
        => /\ create_tag_status(n, Violet) = OK
           /\ Len(create_tag_tags(n, Violet)) = Len(tags) + 1
           /\ \A id \in Live(tags) :
                /\ update_tag_status(id, {"name"}, {}, n, White) = OK
                /\ update_tag_tags(id, {"name"}, {}, n, White)[id].name = strip(n)

\* C7: create_tag or update_tag whose stripped name is the name of another
\* non-deleted tag fails with Conflict and leaves the tags unchanged;
\* update_tag with the tag's own current name is not a conflict.
C7_DuplicateNameConflict ==
    \A n \in TagNames, c \in TagColors :
        (name_not_empty_ok(n) /\ color_hex_ok(c))
        => /\ LiveTagNamed(strip(n)) # {}
                => /\ create_tag_status(n, c) = Conflict
                   /\ create_tag_tags(n, c) = tags
           /\ \A id \in Live(tags), sup \in NameBodies :
                /\ LiveTagNamed(strip(n)) \ {id} # {}
                     => /\ update_tag_status(id, sup, {}, n, c) = Conflict
                        /\ update_tag_tags(id, sup, {}, n, c) = tags
                /\ tags[id].name = strip(n)
                     => /\ update_tag_status(id, sup, {}, n, c) = OK
                        /\ update_tag_tags(id, sup, {}, n, c)[id].name = strip(n)

\* C7 witness: a live tag holds "W" beside another live tag, so that the
\* padded " W " is a duplicate for create_tag and for a rename of the other
\* tag, and the holder's own name for update_tag.
C7_Witness ==
    /\ LiveTagNamed(Work) # {}
    /\ Live(tags) \ LiveTagNamed(Work) # {}
    /\ create_tag_status(WorkPadded, Violet) = Conflict
    /\ \E id \in LiveTagNamed(Work) :
          update_tag_status(id, {"name"}, {}, WorkPadded, White) = OK

\* ------------------------------------------------------------ soft delete
Dead(rows) == Ids(rows) \ Live(rows)

\* get_tasks queries: unfiltered, by project, by completion, and sorted the
\* other way round a page at a time.
Query(given, project_id, is_completed, sort_by, order, limit, offset) ==
    [given |-> given, project_id |-> project_id,
     is_completed |-> is_completed, priority |-> 0, due_date |-> NoDate,
     sort_by |-> sort_by, order |-> order, limit |-> limit, offset |-> offset]
Queries ==
    {Query({}, NULL, FALSE, "sort_order", "asc", NULL, 0),
     Query({"project_id"}, 1, FALSE, "sort_order", "asc", NULL, 0),
     Query({"is_completed"}, NULL, TRUE, "created_at", "desc", NULL, 0),
     Query({"is_completed"}, NULL, FALSE, "sort_order", "desc", 1, 0),
     Query({}, NULL, FALSE, "sort_order", "desc", 1, 1)}

\* C1: no row whose deleted_at is set is returned: not a task by get_tasks,
\* get_task, Inbox, Today, Completed or search, not a project by
\* get_projects or get_project, not a tag by get_tags or get_tag, not a
\* reminder by get_upcoming_reminders.
C1_DeletedRowsNeverReturned ==
    /\ \A f \in Queries : SeqToSet(get_tasks(f)) \cap Dead(tasks) = {}
    /\ \A id \in Dead(tasks) : get_task(id) = <<>>
    /\ SeqToSet(get_inbox_tasks) \cap Dead(tasks) = {}
    /\ SeqToSet(get_today_tasks) \cap Dead(tasks) = {}
    /\ SeqToSet(get_completed_tasks(7)) \cap Dead(tasks) = {}
    /\ \A q \in {<<"m">>, <<"I", "L">>, <<"%">>}, p \in {NULL, 1} :
          SeqToSet(search(q, p, TRUE)) \cap Dead(tasks) = {}
    /\ get_projects \cap Dead(projects) = {}
    /\ \A id \in Dead(projects) : get_project(id) = {}
    /\ get_tags \cap Dead(tags) = {}
    /\ \A id \in Dead(tags) : get_tag(id) = {}
    /\ SeqToSet(get_upcoming_reminders) \cap Dead(reminders) = {}

\* C1 witness: a row of each kind is soft-deleted, the deleted task being
\* a completed, reordered one that is due today and matches the search.
C1_Witness ==
    /\ Dead(projects) # {} /\ Dead(tags) # {} /\ Dead(reminders) # {}
    /\ \E i \in Dead(tasks) :
          /\ tasks[i].is_completed
          /\ tasks[i].sort_order = 5
          /\ tasks[i].due_date = now
          /\ like(<<"%", "m", "%">>, tasks[i].title)

\* ------------------------------------------------------------ project claims
\* C2: no task row, deleted or not, has a project_id that refers to a
\* project whose deleted_at is set.
C2_NoTaskPointsAtDeletedProject ==
    \A i \in Ids(tasks) :
        tasks[i].project_id # NULL => tasks[i].project_id \in Live(projects)

\* C3: a delete_project(p) of a non-deleted project p sets project_id to
\* NULL on every non-deleted task of p and leaves it non-deleted and in
\* get_tasks, takes p out of get_projects and get_project, and keeps the
\* project_id of the tasks of other projects.
C3_DeleteProjectUnassigns ==
    [][\A p \in Ids(projects) :
          (projects[p].deleted_at = NULL /\ projects'[p].deleted_at # NULL)
          => /\ \A i \in Live(tasks) :
                    tasks[i].project_id = p
                    => /\ tasks'[i].project_id = NULL
                       /\ tasks'[i].deleted_at = NULL
                       /\ i \in SeqToSet(get_tasks(
                              Query({}, NULL, FALSE, "sort_order", "asc",
                                    NULL, 0)))'
             /\ p \notin get_projects'
             /\ get_project(p)' = {}
             /\ \A i \in Ids(tasks) :
                    tasks[i].project_id # p
                    => tasks'[i].project_id = tasks[i].project_id]_vars

\* C3 witness: a project is deleted, a non-deleted task has lost its
\* project (in SpecProjects only delete_project does that), and another
\* non-deleted task is still in its non-deleted project.
C3_Witness ==
    /\ Dead(projects) # {}
    /\ \E i, j \in Live(tasks) :
          /\ tasks[i].project_id = NULL
          /\ i \in SeqToSet(get_tasks(
                 Query({}, NULL, FALSE, "sort_order", "asc", NULL, 0)))
          /\ tasks[j].project_id \in Live(projects)

\* ------------------------------------------------------------ completion
\* C4: for every task, completed_at is non-null if and only if
\* is_completed is true.
C4_CompletedAtIffCompleted ==
    \A i \in Ids(tasks) :
        (tasks[i].completed_at # NULL) <=> tasks[i].is_completed

\* C4 witness: a completed task stands beside a task that is not completed,
\* after an update, a reorder and a delete have touched the tasks.
C4_Witness ==
    /\ "reorder" \in calls /\ "delete_task" \in calls
    /\ \E i, j \in Ids(tasks) :
          /\ tasks[i].is_completed /\ tasks[i].completed_at # NULL
          /\ ~tasks[j].is_completed /\ tasks[j].completed_at = NULL
          /\ PRIORITY_MAX \in {tasks[i].priority, tasks[j].priority}

\* ------------------------------------------------------------ ordering
\* C8, as stated: while no reorder has been served, the n-th task created
\* has sort_order n - 1.
C8_NthCreatedHasOrderN ==
    "reorder" \notin calls
    => \A n \in Ids(tasks) : tasks[n].sort_order = n - 1

\* C8, amended: while no reorder, no delete_task and no update_task that
\* supplies sort_order has been served, the n-th task created has
\* sort_order n - 1.
C8_NthCreatedHasOrderN_Amended ==
    calls = {} => \A n \in Ids(tasks) : tasks[n].sort_order = n - 1

\* C8 witness: two tasks were created, one of them since completed and the
\* other retitled, and no task was reordered, deleted or given a sort_order.
C8_Witness ==
    /\ calls = {}
    /\ Len(tasks) >= 2
    /\ \E i, j \in Ids(tasks) : tasks[i].is_completed /\ tasks[j].title = Soon

\* C9: create_task gives the new task the largest sort_order of the tasks
\* non-deleted at that moment plus one, or 0 when there is none, and
\* changes no existing task.
C9_AppendAfterLiveMax ==
    [][Len(tasks') = Len(tasks) + 1
       => /\ \A i \in Ids(tasks) : tasks'[i] = tasks[i]
          /\ LET new == tasks'[Len(tasks) + 1].sort_order
             IN IF \A i \in Ids(tasks) : tasks[i].deleted_at # NULL
                THEN new = 0
                ELSE /\ \E i \in Ids(tasks) :
                          /\ tasks[i].deleted_at = NULL
                          /\ new = tasks[i].sort_order + 1
                     /\ \A i \in Ids(tasks) :
                          tasks[i].deleted_at = NULL
                          => new > tasks[i].sort_order]_vars

\* C9 witness: a task created after the deletion of a task of larger
\* sort_order: the last task, which nothing has moved, is not past it.
C9_Witness ==
    /\ {"reorder", "update_sort_order"} \cap calls = {}
    /\ Len(tasks) >= 2
    /\ tasks[Len(tasks)].deleted_at = NULL
    /\ \E i \in Dead(tasks) :
          i < Len(tasks) /\ tasks[i].sort_order >= tasks[Len(tasks)].sort_order

\* C10: reorder(items) is served without error, gives each listed
\* non-deleted task the sort_order supplied for it (the last one if it is
\* listed twice), and leaves every other task, every other field, and the
\* soft-deleted tasks as they are; ids that are unknown or soft-deleted
\* are skipped.
C10_ReorderSetsListedLiveTasks ==
    \A items \in ReorderBodies \ {<<>>} :
        /\ reorder_status(items) = OK
        /\ LET after == reorder_items(tasks, items)
               listed(i) == {k \in 1..Len(items) : items[k][1] = i}
           IN /\ Len(after) = Len(tasks)
              /\ \A i \in Ids(tasks) :
                    IF i \in Live(tasks) /\ listed(i) # {}
                    THEN after[i] =
                           [tasks[i] EXCEPT
                              !.sort_order = items[SetMax(listed(i))][2]]
                    ELSE after[i] = tasks[i]

\* C10 witness: a reorder has been served; a non-deleted task has the
\* sort_order 5 that only a reorder or an update gives, beside a deleted
\* task that kept its own, and a reorder listing both, with an unknown id,
\* would move the one and not the other.
C10_Witness ==
    /\ "reorder" \in calls /\ "update_sort_order" \notin calls
    /\ \E i \in Live(tasks), j \in Dead(tasks) :
          /\ tasks[i].sort_order = 5
          /\ tasks[j].sort_order # 5
          /\ reorder_items(tasks, <<<<j, 5>>, <<MaxTasks, 5>>>>) = tasks
          /\ reorder_items(tasks, <<<<i, 0>>, <<j, 5>>>>)[i].sort_order = 0

\* ------------------------------------------------------------ toggling
\* Requests that complete and reopen tasks one at a time, as time passes.
NextToggle == CreateTask \/ CompleteToggle \/ DeleteTask \/ Tick

SpecToggle == Init /\ [][NextToggle]_vars

\* C11: for every non-deleted task, one complete_toggle of an incomplete
\* task sets is_completed and a non-null completed_at, one of a completed
\* task clears both, and two in a row give back the original is_completed
\* and the original nullness of completed_at.
C11_ToggleTwiceRestores ==
    \A i \in Live(tasks) :
        LET t == tasks[i]
            once == toggled(t)
            twice == toggled(once)
        IN /\ task_status(i) = OK
           /\ ~t.is_completed
                => once.is_completed /\ once.completed_at # NULL
           /\ t.is_completed
                => ~once.is_completed /\ once.completed_at = NULL
           /\ twice.is_completed = t.is_completed
           /\ (twice.completed_at = NULL) <=> (t.completed_at = NULL)

\* C11 witness: a task completed by a toggle some time after it was
\* created stands beside a non-deleted incomplete one.
C11_Witness ==
    \E i, j \in Live(tasks) :
        /\ tasks[i].is_completed
        /\ tasks[i].completed_at > tasks[i].created_at
        /\ toggled(toggled(tasks[i])).completed_at = now
        /\ ~tasks[j].is_completed

\* ------------------------------------------------------------ bulk complete
\* Requests around bulk_complete: tasks in any project or in none, the
\* first project the one that gets deleted, and bulk_complete the only
\* request that completes a task.
CreateErrands == create_project(Errands)
DeleteFirstProject == delete_project(1)
CreateTaskAnywhere ==
    \E p \in 0..MaxProjects : create_task(Milk, <<>>, 0, NoDate, p, <<>>)

NextBulk ==
    \/ CreateErrands \/ DeleteFirstProject
    \/ CreateTaskAnywhere \/ DeleteTask \/ BulkComplete

SpecBulk == Init /\ [][NextBulk]_vars

\* C12: bulk_complete(P) for a non-deleted project P completes exactly the
\* non-deleted incomplete tasks of P, all with one completed_at, returns
\* their number and leaves every other task as it is; for a missing or
\* soft-deleted P it is NotFound and changes nothing.
C12_BulkCompleteExactlyTargets ==
    \A p \in 1..MaxProjects :
        LET after == bulk_complete_tasks(p)
            T == {i \in Ids(tasks) :
                    /\ tasks[i].deleted_at = NULL
                    /\ tasks[i].project_id = p
                    /\ ~tasks[i].is_completed}
        IN IF p \in Ids(projects) /\ projects[p].deleted_at = NULL
           THEN /\ bulk_complete_status(p) = OK
                /\ bulk_complete_count(p) = Cardinality(T)
                /\ Len(after) = Len(tasks)
                /\ \A i \in T :
                      /\ after[i].completed_at # NULL
                      /\ after[i] =
                           [tasks[i] EXCEPT
                              !.is_completed = TRUE,
                              !.completed_at = after[i].completed_at]
                      /\ \A j \in T :
                            after[j].completed_at = after[i].completed_at
                /\ \A i \in Ids(tasks) \ T : after[i] = tasks[i]
           ELSE /\ bulk_complete_status(p) = NotFound
                /\ after = tasks

\* C12 witness: in a non-deleted project a task that an earlier
\* bulk_complete completed stands beside an incomplete one and a deleted
\* incomplete one, so that the next bulk_complete has one task to complete
\* and two to leave.
C12_Witness ==
    \E p \in Live(projects), i, j, k \in Ids(tasks) :
        /\ tasks[i].project_id = p /\ tasks[i].is_completed
        /\ tasks[j].project_id = p /\ ~tasks[j].is_completed
        /\ tasks[j].deleted_at = NULL
        /\ tasks[k].project_id = p /\ ~tasks[k].is_completed
        /\ tasks[k].deleted_at # NULL
        /\ bulk_complete_count(p) = 1
        /\ bulk_complete_status(MaxProjects) = NotFound

\* ------------------------------------------------------------ create_task
\* Requests that create a task with a project and tags, among projects and
\* tags that are live, soft-deleted or missing, and tasks with reminders.
TagLists ==
    {<<>>} \cup {<<a>> : a \in 1..MaxTags}
           \cup {<<a, b>> : a \in 1..MaxTags, b \in 1..MaxTags}
CreateTagNamed ==
    /\ Len(tags) < MaxTags - 1
    /\ \E n \in {Work, <<"x">>, <<"y">>} : create_tag(n, Violet)
DeleteFirstTag == delete_tag(1)
CreateTaggedTask ==
    /\ Len(tasks) < FewerTasks
    /\ \E p \in 0..MaxProjects, ids \in TagLists :
          create_task(Milk, <<>>, 0, NoDate, p, ids)
RemindFirstTask ==
    /\ Len(reminders) < FewReminders
    /\ create_reminder(1, now)

NextCreate ==
    \/ CreateFewProjects \/ DeleteFirstProject
    \/ CreateTagNamed \/ DeleteFirstTag
    \/ CreateTaggedTask \/ RemindFirstTask

SpecCreate == Init /\ [][NextCreate]_vars

\* C13: create_task with a project_id that is missing or soft-deleted is
\* NotFound; with a tag id that is missing or soft-deleted it is a
\* ValidationError over exactly those ids; either way no task row and no
\* link is stored.  A create_task that succeeds stores an incomplete task
\* with completed_at null, no reminders, and exactly the supplied tags.
C13_CreateTaskValidatesReferences ==
    \A p \in 0..MaxProjects, ids \in TagLists :
        LET st == create_task_status(Milk, <<>>, 0, NoDate, p, ids)
            ts == create_task_tasks(Milk, <<>>, 0, NoDate, p, ids)
            ls == create_task_links(Milk, <<>>, 0, NoDate, p, ids)
            new == Len(tasks) + 1
            badProject ==
                p # NULL /\ (p \notin Ids(projects)
                             \/ projects[p].deleted_at # NULL)
            missing ==
                {t \in SeqToSet(ids) :
                    t \notin Ids(tags) \/ tags[t].deleted_at # NULL}
        IN /\ badProject => st = NotFound /\ ts = tasks /\ ls = links
           /\ (~badProject /\ missing # {})
                => /\ st = ValidationError
                   /\ missing_tags(ids) = missing
                   /\ ts = tasks /\ ls = links
           /\ st = OK
                => /\ Len(ts) = new
                   /\ SubSeq(ts, 1, Len(tasks)) = tasks
                   /\ ~ts[new].is_completed
                   /\ ts[new].completed_at = NULL
                   /\ ts[new].project_id = p
                   /\ {k \in Ids(reminders) : reminders[k].task_id = new} = {}
                   /\ {l[2] : l \in {x \in ls : x[1] = new}} = SeqToSet(ids)
                   /\ {x \in ls : x[1] # new} = links

\* C13 witness: a task was created in the first project with the first tag
\* and has a reminder; project and tag have since been deleted, so that
\* the same request is now NotFound, and without the project a
\* ValidationError.
C13_Witness ==
    /\ reminders # <<>>
    /\ 1 \in Dead(projects)
    /\ 1 \in Dead(tags)
    /\ \E i \in Ids(tasks) : <<i, 1>> \in links
    /\ create_task_status(Milk, <<>>, 0, NoDate, 1, <<1>>) = NotFound
    /\ create_task_status(Milk, <<>>, 0, NoDate, NULL, <<1, MaxTags>>)
          = ValidationError

\* ------------------------------------------------------------ task tags
\* Requests that tag tasks: tags are created, tasks are created with tags,
\* retitled, and given a new list of tags.
TagsBody(ids) == [EmptyBody EXCEPT !.supplied = {"tag_ids"}, !.tag_ids = ids]
CreateTaskTagged ==
    /\ Len(tasks) < FewTasks
    /\ \E ids \in TagLists : create_task(Milk, <<>>, 0, NoDate, NULL, ids)
Retag == \E id \in 1..MaxTasks, ids \in TagLists : update_task(id, TagsBody(ids))

NextLinks == CreateTagNamed \/ DeleteFirstTag \/ CreateTaskTagged \/ Retitle \/ Retag

SpecLinks == Init /\ [][NextLinks]_vars

TagsOf(ls, task_id) == {l[2] : l \in {x \in ls : x[1] = task_id}}

\* C14: update_task with tag_ids supplied, for every list of live tag ids,
\* leaves the task with exactly the supplied tags and the links of other
\* tasks as they were; without tag_ids it leaves the links as they were.
C14_TagIdsReplaceLinks ==
    \A id \in Live(tasks) :
        /\ \A ids \in TagLists :
              SeqToSet(ids) \subseteq Live(tags)
              => LET ls == update_task_links(id, TagsBody(ids))
                 IN /\ update_task_status(id, TagsBody(ids)) = OK
                    /\ TagsOf(ls, id) = SeqToSet(ids)
                    /\ {x \in ls : x[1] # id} = {x \in links : x[1] # id}
        /\ update_task_links(id, [EmptyBody EXCEPT !.supplied = {"title"}])
              = links

\* C14 for the lists that name no tag twice.
C14_DistinctTagIdsReplaceLinks ==
    \A id \in Live(tasks) :
        /\ \A ids \in TagLists :
              (SeqToSet(ids) \subseteq Live(tags) /\ NoDuplicates(ids))
              => LET ls == update_task_links(id, TagsBody(ids))
                 IN /\ update_task_status(id, TagsBody(ids)) = OK
                    /\ TagsOf(ls, id) = SeqToSet(ids)
                    /\ {x \in ls : x[1] # id} = {x \in links : x[1] # id}
        /\ update_task_links(id, [EmptyBody EXCEPT !.supplied = {"title"}])
              = links

\* ------------------------------------------------------------ partial update
\* Requests that update tasks, projects and tags, some fields at a time.
SoonPadded == <<SP, "s">>
Note == <<"n">>
Home == <<"H", SP>>
TaskFields ==
    {"title", "notes", "priority", "due_date", "project_id", "sort_order"}
ProjectFields == {"name", "is_archived", "sort_order"}
TagFields == {"name", "color"}

\* The body that supplies the fields sup, project_id as null if in nl.
TaskBody(sup, nl) ==
    Body(sup, nl, SoonPadded, Note, PRIORITY_MAX, Jan1, 1, 5, <<>>)

CreateFewerTasks ==
    /\ Len(tasks) < FewerTasks
    /\ \E p \in 0..1 : create_task(Milk, <<>>, 0, NoDate, p, <<>>)
UpdateFewerTasks ==
    \E id \in 1..FewerTasks :
        \/ update_task(id, TaskBody(TaskFields \ {"project_id"}, {}))
        \/ update_task(id, TaskBody({"project_id"}, {}))
        \/ update_task(id, TaskBody({"project_id"}, {"project_id"}))
UpdateFewProjects ==
    \E id \in 1..FewProjects :
        update_project(id, ProjectFields, {}, Home, TRUE, 5)
UpdateFewTags ==
    \E id \in 1..FewTags : update_tag(id, TagFields, {}, <<"x">>, White)

NextUpdate ==
    \/ CreateFewProjects \/ UpdateFewProjects
    \/ CreateFewerTasks \/ UpdateFewerTasks \/ ToggleFewerTasks
    \/ DeleteFewerTasks
    \/ CreateFewTags \/ UpdateFewTags

SpecUpdate == Init /\ [][NextUpdate]_vars

\* C15: an update_task, update_project or update_tag that is served
\* overwrites the fields present in the request with the values supplied
\* and leaves every other field of the row, every other row, deleted_at
\* and (for tasks) is_completed and completed_at as they were; one that is
\* refused changes nothing; project_id supplied as null is served and
\* unassigns the task.
C15_UpdateOnlySuppliedFields ==
    /\ \A id \in Live(tasks), sup \in SUBSET TaskFields,
          nl \in {{}, {"project_id"}} :
          nl \subseteq sup =>
          LET d == TaskBody(sup, nl)
              ts == update_task_tasks(id, d)
              old == tasks[id]
              given(f, v) == IF f \in sup THEN v ELSE old[f]
          IN IF update_task_status(id, d) # OK THEN ts = tasks
             ELSE ts = [tasks EXCEPT ![id] =
                    [old EXCEPT
                       !.title = given("title", <<"s">>),
                       !.notes = given("notes", Note),
                       !.priority = given("priority", PRIORITY_MAX),
                       !.due_date = given("due_date", 1),
                       !.project_id =
                          given("project_id",
                                IF "project_id" \in nl THEN NULL ELSE 1),
                       !.sort_order = given("sort_order", 5)]]
    /\ \A id \in Live(tasks) :
          /\ update_task_status(id, TaskBody({"project_id"}, {"project_id"}))
                = OK
          /\ update_task_tasks(id, TaskBody({"project_id"}, {"project_id"}))
                [id].project_id = NULL
    /\ \A id \in Live(projects), sup \in SUBSET ProjectFields :
          LET ps == update_project_projects(id, sup, {}, Home, TRUE, 5)
              old == projects[id]
              given(f, v) == IF f \in sup THEN v ELSE old[f]
          IN /\ update_project_status(id, sup, {}, Home) = OK
             /\ ps = [projects EXCEPT ![id] =
                    [old EXCEPT
                       !.name = given("name", <<"H">>),
                       !.is_archived = given("is_archived", TRUE),
                       !.sort_order = given("sort_order", 5)]]
    /\ \A id \in Live(tags), sup \in SUBSET TagFields :
          LET gs == update_tag_tags(id, sup, {}, <<"x", SP>>, White)
              old == tags[id]
              given(f, v) == IF f \in sup THEN v ELSE old[f]
          IN IF update_tag_status(id, sup, {}, <<"x", SP>>, White) # OK
             THEN gs = tags
             ELSE gs = [tags EXCEPT ![id] =
                    [old EXCEPT !.name = given("name", <<"x">>),
                                !.color = given("color", White)]]

\* C15 witness: a completed task in the project has all its own fields
\* but project_id updated; the project and the tag are updated too, so
\* that a further partial update of each has fields to keep.
C15_Witness ==
    /\ \E i \in Live(tasks) :
          /\ tasks[i].is_completed
          /\ tasks[i].title = <<"s">> /\ tasks[i].sort_order = 5
          /\ tasks[i].project_id = 1
          /\ update_task_status(i, TaskBody({"notes", "project_id"},
                                            {"project_id"})) = OK
    /\ \E k \in Live(projects) : projects[k].is_archived
    /\ \E g \in Live(tags) : tags[g].color = White

\* ------------------------------------------------------------ lifecycle
\* Requests of every kind that writes a task, project, tag or reminder;
\* updates, reorders and fires address the first row of a table.
UpdateFirstProject == update_project(1, ProjectFields, {}, Home, TRUE, 5)
UpdateFirstTag == update_tag(1, TagFields, {}, <<"x">>, White)
UnassignFirstTask ==
    update_task(1, TaskBody({"project_id"}, {"project_id"}))
ReorderFirstTask == reorder(<<<<1, 5>>>>)
FireFirstReminder == fire_reminder(1)

NextLifecycle ==
    \/ CreateFewProjects \/ UpdateFirstProject \/ DeleteFewProjects
    \/ CreateFewerTasks \/ UnassignFirstTask \/ DeleteFewerTasks
    \/ ToggleFewerTasks \/ BulkCompleteFew \/ ReorderFirstTask
    \/ CreateFewTags \/ UpdateFirstTag \/ DeleteFewTags
    \/ CreateFewReminders \/ FireFirstReminder \/ DeleteFewReminders

SpecLifecycle == Init /\ [][NextLifecycle]_vars

\* What a step may do to a table: keep every row in its place, and keep a
\* row whose deleted_at is set exactly as it is.
RowsKept(rows, rows2) ==
    /\ Len(rows2) >= Len(rows)
    /\ \A i \in Ids(rows) : rows[i].deleted_at # NULL => rows2[i] = rows[i]

\* C16: no step removes a task, project, tag or reminder row, and no step
\* changes deleted_at or any other field of a row whose deleted_at is set.
C16_NoResurrectionNoHardDelete ==
    [][/\ RowsKept(tasks, tasks')
       /\ RowsKept(projects, projects')
       /\ RowsKept(tags, tags')
       /\ RowsKept(reminders, reminders')]_vars

\* C16 witness: a row of each kind is soft-deleted while requests that
\* address it can still be made: the deleted task is an incomplete one
\* that was in the project before the project was deleted.
C16_Witness ==
    /\ Dead(projects) # {} /\ Dead(tags) # {} /\ Dead(reminders) # {}
    /\ \E i \in Dead(tasks) :
          /\ ~tasks[i].is_completed
          /\ tasks[i].project_id \in Dead(projects)

\* ------------------------------------------------------------ not found
\* Rows of every kind are created and soft-deleted, tasks are toggled and
\* reminders fired; every delete, toggle and fire may address a row that is
\* already gone.
NextGone ==
    \/ CreateFewProjects \/ DeleteFewProjects
    \/ CreateFewerTasks \/ ToggleFewerTasks \/ DeleteFewerTasks
    \/ CreateFewTags \/ DeleteFewTags
    \/ CreateFewReminders \/ FireFirstReminder \/ DeleteFewReminders

SpecGone == Init /\ [][NextGone]_vars

Gone(rows, Max) == (1..Max) \ Live(rows)

\* Valid update bodies: nothing supplied, every scalar field supplied, a
\* tag list supplied.
GoneBodies == {EmptyBody, TaskBody(TaskFields, {}), TagsBody(<<1>>)}

\* C17: a get, update, delete, complete_toggle or fire addressed to an id
\* that is missing or soft-deleted is NotFound and leaves the store as it
\* is; so a second delete of the same row is NotFound.
C17_GoneIdIsNotFound ==
    /\ \A id \in Gone(tasks, MaxTasks) :
          /\ get_task_status(id) = NotFound
          /\ task_status(id) = NotFound
          /\ delete_task_tasks(id) = tasks
          /\ complete_toggle_tasks(id) = tasks
          /\ \A d \in GoneBodies :
                /\ update_task_status(id, d) = NotFound
                /\ update_task_tasks(id, d) = tasks
                /\ update_task_links(id, d) = links
    /\ \A id \in Gone(projects, MaxProjects) :
          /\ get_project_status(id) = NotFound
          /\ delete_project_status(id) = NotFound
          /\ delete_project_projects(id) = projects
          /\ delete_project_tasks(id) = tasks
          /\ \A sup \in {{}, ProjectFields} :
                /\ update_project_status(id, sup, {}, Home) = NotFound
                /\ update_project_projects(id, sup, {}, Home, TRUE, 5)
                      = projects
    /\ \A id \in Gone(tags, MaxTags) :
          /\ get_tag_status(id) = NotFound
          /\ delete_tag_status(id) = NotFound
          /\ delete_tag_tags(id) = tags
          /\ \A sup \in {{}, TagFields} :
                /\ update_tag_status(id, sup, {}, <<"y">>, White) = NotFound
                /\ update_tag_tags(id, sup, {}, <<"y">>, White) = tags
    /\ \A id \in Gone(reminders, MaxReminders) :
          /\ reminder_status(id) = NotFound
          /\ delete_reminder_reminders(id) = reminders
          /\ fire_reminder_reminders(id) = reminders

\* C17 witness: a row of each kind has been deleted once, the task a
\* completed one and the reminder a fired one, and an id of each kind was
\* never given out.
C17_Witness ==
    /\ \E i \in Dead(tasks) : tasks[i].is_completed
    /\ \E k \in Dead(reminders) : reminders[k].is_fired
    /\ Dead(projects) # {} /\ Dead(tags) # {}
    /\ Len(tasks) < MaxTasks /\ Len(projects) < MaxProjects
    /\ Len(tags) < MaxTags /\ Len(reminders) < MaxReminders

\* ------------------------------------------------------------ today
Jan2 == <<1, 2>>
HIGH == 3

\* Tasks of priority NONE, HIGH and URGENT, without a due date or due on
\* the first or the second day, are created, completed, reopened, reordered
\* and deleted while the days pass.
CreateTodayTask ==
    /\ Len(tasks) < FewTasks
    /\ \E p \in {PRIORITY_MIN, HIGH, PRIORITY_MAX}, d \in {NoDate, Jan1, Jan2} :
          create_task(Milk, <<>>, p, d, NULL, <<>>)
DeleteFirstTask == delete_task(1)

NextToday ==
    \/ CreateTodayTask \/ CompleteToggle \/ DeleteFirstTask
    \/ ReorderFirstTask \/ Tick

SpecToday == Init /\ [][NextToday]_vars

\* The tasks that are due: not deleted, not completed, due today or before.
DueTasks ==
    {i \in Ids(tasks) : /\ tasks[i].deleted_at = NULL
                        /\ ~tasks[i].is_completed
                        /\ tasks[i].due_date # NULL
                        /\ tasks[i].due_date <= now}

\* Row i may come before row j: higher priority, or the same priority and
\* an earlier due date, or the same of both and no larger sort_order.
TodayOrder(i, j) ==
    \/ tasks[i].priority > tasks[j].priority
    \/ /\ tasks[i].priority = tasks[j].priority
       /\ \/ tasks[i].due_date < tasks[j].due_date
          \/ /\ tasks[i].due_date = tasks[j].due_date
             /\ tasks[i].sort_order <= tasks[j].sort_order

Exactly(q, S) == SeqToSet(q) = S /\ Len(q) = Cardinality(S)
TodayInOrder(q) == \A a, b \in 1..Len(q) : a < b => TodayOrder(q[a], q[b])

\* C18: the Today view returns exactly the tasks that are not deleted, not
\* completed and due today or before, by priority from URGENT down to NONE,
\* then by due date, then by sort_order.
C18_TodayDueTasksByPriority ==
    /\ Exactly(get_today_tasks, DueTasks)
    /\ TodayInOrder(get_today_tasks)

\* The Today view returns exactly the due tasks, in whatever order.
C18_TodayExactlyDueTasks == Exactly(get_today_tasks, DueTasks)

\* On a database whose enum type compares in declaration order the Today
\* view is in the order C18 states.
C18_TodayByPriorityOnNativeEnum ==
    /\ Exactly(get_today_tasks_in("postgresql"), DueTasks)
    /\ TodayInOrder(get_today_tasks_in("postgresql"))

\* C19: the Today view returns the incomplete tasks that have no due date
\* or are due today or before, so a live, incomplete task created without a
\* due date is in it.
C19_TodayHasUndatedTasks ==
    \A i \in Live(tasks) :
        (~tasks[i].is_completed
            /\ (tasks[i].due_date = NULL \/ tasks[i].due_date <= now))
        => i \in SeqToSet(get_today_tasks)

\* No task without a due date is in the Today view.
C19_TodayHasNoUndatedTask ==
    \A i \in SeqToSet(get_today_tasks) : tasks[i].due_date # NULL

\* ------------------------------------------------------------ inbox
\* Row i may come before row j: incomplete before completed, and within
\* each group no larger sort_order.
InboxOrder(i, j) ==
    \/ ~tasks[i].is_completed /\ tasks[j].is_completed
    \/ /\ tasks[i].is_completed = tasks[j].is_completed
       /\ tasks[i].sort_order <= tasks[j].sort_order

\* C20: the Inbox view returns every task that is not deleted, in a project
\* or not, completed or not, by is_completed then sort_order; every
\* incomplete task comes before every completed one.
C20_InboxAllLiveIncompleteFirst ==
    /\ Exactly(get_inbox_tasks, Live(tasks))
    /\ \A a, b \in 1..Len(get_inbox_tasks) :
          a < b => InboxOrder(get_inbox_tasks[a], get_inbox_tasks[b])
    /\ \A a, b \in 1..Len(get_inbox_tasks) :
          (~tasks[get_inbox_tasks[a]].is_completed
             /\ tasks[get_inbox_tasks[b]].is_completed) => a < b

\* C20 witness: the Inbox holds an incomplete task and, after it, a
\* completed task with a smaller sort_order; one of the two is in a project
\* and the other is not.
C20_Witness ==
    /\ Len(get_inbox_tasks) = 2
    /\ LET i == get_inbox_tasks[1]
           j == get_inbox_tasks[2]
       IN /\ ~tasks[i].is_completed /\ tasks[j].is_completed
          /\ tasks[j].sort_order < tasks[i].sort_order
          /\ tasks[i].project_id # tasks[j].project_id
          /\ NULL \in {tasks[i].project_id, tasks[j].project_id}

\* ------------------------------------------------------------ completed
DayCounts == {0 - 1, 0, 1, 2, 365, 366}

\* The tasks completed in the last days days and not deleted.
CompletedSince(days) ==
    {i \in Ids(tasks) : /\ tasks[i].deleted_at = NULL
                        /\ tasks[i].is_completed
                        /\ tasks[i].completed_at # NULL
                        /\ now - tasks[i].completed_at <= days}

\* C21: for days in 1..365 the Completed view returns exactly the tasks
\* that are not deleted, completed, and completed in the last days days,
\* latest completion first, so never a task a second toggle reopened; any
\* other days is a ValidationError.
C21_CompletedWithinDays ==
    \A days \in DayCounts :
        IF days \in 1..365
        THEN /\ get_completed_tasks_status(days) = OK
             /\ Exactly(get_completed_tasks(days), CompletedSince(days))
             /\ \A a, b \in 1..Len(get_completed_tasks(days)) :
                   a < b => tasks[get_completed_tasks(days)[a]].completed_at
                              >= tasks[get_completed_tasks(days)[b]].completed_at
             /\ \A i \in SeqToSet(get_completed_tasks(days)) :
                   tasks[i].is_completed
        ELSE get_completed_tasks_status(days) = ValidationError

\* C21 witness: a task completed two days ago is outside the one-day
\* window and inside the two-day window, after a task completed today.
C21_Witness ==
    /\ Len(get_completed_tasks(1)) = 1
    /\ Len(get_completed_tasks(2)) = 2
    /\ tasks[get_completed_tasks(2)[1]].completed_at = now
    /\ get_completed_tasks(2)[1] > get_completed_tasks(2)[2]

\* ------------------------------------------------------------ search
\* Tasks titled "milk" or "MK", with notes or without, in the first
\* project or in none, are created, completed, reopened and deleted.
CreateSearchTask ==
    /\ Len(tasks) < FewTasks
    /\ \E t \in {Milk, <<"M", "K">>}, n \in {<<>>, <<"k", "i">>}, p \in 0..1 :
          create_task(t, n, 0, NoDate, p, <<>>)

NextSearch ==
    \/ CreateFewProjects \/ CreateSearchTask
    \/ CompleteToggle \/ DeleteFirstTask

SpecSearch == Init /\ [][NextSearch]_vars

LongQuery == [k \in 1..(MAX_QUERY_LEN + 1) |-> "m"]
FullQuery == [k \in 1..MAX_QUERY_LEN |-> "m"]
PlainQueries ==
    {<<>>, <<SP>>, <<"M">>, <<SP, "k", SP>>, <<"k", "i">>, <<"x">>,
     LongQuery, <<SP>> \o FullQuery}
WildcardQueries == {<<"_">>, <<"%">>, <<"m", "_", "l">>}

\* needle is a substring of hay, letter case aside.
Contains(hay, needle) ==
    \E k \in 0..(Len(hay) - Len(needle)) :
        \A j \in 1..Len(needle) : lower(hay[k + j]) = lower(needle[j])

\* The tasks a search for the trimmed query n is to find.
SearchHits(n, project_id, include_completed) ==
    {i \in Ids(tasks) :
        /\ tasks[i].deleted_at = NULL
        /\ \/ Contains(tasks[i].title, n)
           \/ Contains(tasks[i].notes_plain, n)
           \/ Contains(tasks[i].notes, n)
        /\ (project_id # NULL => tasks[i].project_id = project_id)
        /\ (~include_completed => ~tasks[i].is_completed)}

SearchAsStated(q, project_id, include_completed) ==
    LET r == search(q, project_id, include_completed)
        n == strip(q)
    IN IF n = <<>> \/ Len(n) > MAX_QUERY_LEN THEN r = <<>>
       ELSE /\ Len(r) <= SEARCH_LIMIT
            /\ \A a, b \in 1..Len(r) : a < b => r[a] < r[b]
            /\ SeqToSet(r) \subseteq SearchHits(n, project_id, include_completed)

\* C22: search returns nothing for a query that is empty or longer than
\* 100 characters once trimmed; for every other query, whatever its
\* characters, it returns at most 50 tasks in id order, each not deleted,
\* holding the trimmed query in its title, notes_plain or notes whatever the
\* letter case, in the project asked for, and incomplete unless completed
\* tasks are asked for.
C22_SearchFindsSubstring ==
    \A q \in PlainQueries \cup WildcardQueries, p \in 0..1, c \in BOOLEAN :
        SearchAsStated(q, p, c)

\* For queries without % and _ search returns what C22 states, and every
\* such task.
C22_SearchPlainQueries ==
    \A q \in PlainQueries, p \in 0..1, c \in BOOLEAN :
        /\ SearchAsStated(q, p, c)
        /\ (strip(q) # <<>> /\ Len(strip(q)) <= MAX_QUERY_LEN)
             => SeqToSet(search(q, p, c)) = SearchHits(strip(q), p, c)

\* ------------------------------------------------------------ list
\* Tasks of priority NONE or HIGH, due on the first day or undated, in the
\* first project or in none, are created, completed, reopened and deleted.
CreateListTask ==
    /\ Len(tasks) < FewTasks
    /\ \E pr \in {PRIORITY_MIN, HIGH}, d \in {NoDate, Jan1}, p \in 0..1 :
          create_task(Milk, <<>>, pr, d, p, <<>>)

NextList ==
    \/ CreateFewProjects \/ CreateListTask
    \/ CompleteToggle \/ DeleteFirstTask

SpecList == Init /\ [][NextList]_vars

\* A get_tasks call in the default order.
ListQuery(given, project_id, is_completed, priority, due_date, limit, offset) ==
    [given |-> given, project_id |-> project_id,
     is_completed |-> is_completed, priority |-> priority,
     due_date |-> due_date, sort_by |-> "sort_order", order |-> "asc",
     limit |-> limit, offset |-> offset]

Filters == {"project_id", "is_completed", "priority", "due_date"}
Pages == {<<NULL, 0>>, <<1, 0>>, <<2, 1>>}

\* Calls with filters that parse: the first project, is_completed false or
\* true, priority 0 or HIGH, due on the first day.
GoodListQueries ==
    {ListQuery(g, 1, c, pr, Jan1, pg[1], pg[2]) :
        g \in SUBSET Filters, c \in BOOLEAN, pr \in {PRIORITY_MIN, HIGH},
        pg \in Pages}

\* Calls with a priority outside 0..4 or a date that does not exist.
BadListQueries ==
    {ListQuery({"priority"} \cup g, 1, FALSE, pr, Jan1, NULL, 0) :
        g \in SUBSET Filters, pr \in {PRIORITY_MIN - 1, PRIORITY_MAX + 1}}
    \cup {ListQuery({"due_date"} \cup g, 1, FALSE, 0, d, NULL, 0) :
            g \in SUBSET Filters, d \in {Feb30, <<13, 1>>}}

\* Calls with the empty string as due_date.
EmptyDateListQueries ==
    {ListQuery({"due_date"} \cup g, 1, FALSE, 0, <<>>, NULL, 0) :
        g \in SUBSET Filters}

Unpaged(f) == [f EXCEPT !.limit = NULL, !.offset = 0]

\* The tasks that are not deleted and equal the call in every filter given.
Matching(f) ==
    {i \in Ids(tasks) :
        /\ tasks[i].deleted_at = NULL
        /\ ("project_id" \in f.given => tasks[i].project_id = f.project_id)
        /\ ("is_completed" \in f.given
              => tasks[i].is_completed = f.is_completed)
        /\ ("priority" \in f.given => tasks[i].priority = f.priority)
        /\ ("due_date" \in f.given
              => tasks[i].due_date = parse_date(f.due_date))}

\* The call returns the matching tasks in sort_order, cut to its page.
ListsMatching(f) ==
    LET all == get_tasks(Unpaged(f))
    IN /\ get_tasks_status(f) = OK
       /\ Exactly(all, Matching(f))
       /\ \A a, b \in 1..Len(all) :
             a < b => tasks[all[a]].sort_order <= tasks[all[b]].sort_order
       /\ get_tasks(f) = IF f.limit = NULL THEN Drop(all, f.offset)
                         ELSE Take(Drop(all, f.offset), f.limit)

\* C23 as stated: get_tasks returns exactly the tasks that are not deleted
\* and match every filter supplied, false and 0 included, sorted and then
\* cut by offset and limit; a priority outside 0..4 or a due_date that does
\* not parse, the empty string included, is a ValidationError.
C23_ListMatchesOrRejects ==
    /\ \A f \in GoodListQueries : ListsMatching(f)
    /\ \A f \in BadListQueries \cup EmptyDateListQueries :
          get_tasks_status(f) = ValidationError

\* C23 amended: as stated for a due_date that is not empty; an empty
\* due_date string is no filter and no error.
C23_ListMatchesOrRejectsNonEmpty ==
    /\ \A f \in GoodListQueries : ListsMatching(f)
    /\ \A f \in BadListQueries :
          get_tasks_status(f) = ValidationError /\ get_tasks(f) = <<>>
    /\ \A f \in EmptyDateListQueries :
          ListsMatching([f EXCEPT !.given = f.given \ {"due_date"}])
            /\ get_tasks(f) = get_tasks([f EXCEPT !.given = f.given \ {"due_date"}])

\* C23 witness: of two live tasks the first is completed and HIGH, the
\* second incomplete and NONE; filtering on is_completed = false and on
\* priority = 0 returns the second only.
C23_Witness ==
    /\ Live(tasks) = {1, 2}
    /\ tasks[1].is_completed /\ tasks[1].priority = HIGH
    /\ ~tasks[2].is_completed /\ tasks[2].priority = PRIORITY_MIN
    /\ get_tasks(ListQuery({"is_completed"}, 1, FALSE, 0, Jan1, NULL, 0)) = <<2>>
    /\ get_tasks(ListQuery({"priority"}, 1, FALSE, 0, Jan1, NULL, 0)) = <<2>>
    /\ get_tasks(ListQuery({}, 1, FALSE, 0, Jan1, 2, 1)) = <<2>>

\* ------------------------------------------------------------ updated_at
\* C24: a step that changes a task (update, soft delete, toggle, bulk
\* complete, reorder, unassignment) leaves the time of the step in its
\* updated_at.
C24_MutationStampsUpdatedAt ==
    [][\A i \in Ids(tasks) :
          tasks'[i] # tasks[i] => tasks'[i].updated_at = now]_vars

\* The updated_at of every row is its created_at, whatever was done to it.
C24_UpdatedAtStaysCreatedAt ==
    /\ \A i \in Ids(tasks) : tasks[i].updated_at = tasks[i].created_at
    /\ \A i \in Ids(projects) : projects[i].updated_at = projects[i].created_at
    /\ \A i \in Ids(tags) : tags[i].updated_at = tags[i].created_at
    /\ \A i \in Ids(reminders) :
          reminders[i].updated_at = reminders[i].created_at

\* ------------------------------------------------------------ nested rows
\* Task.tags and Task.reminders, as joinedload fills them for a response:
\* the rows joined through task_tag_link and through Reminder.task_id.
task_tags(task_id) == {g \in Ids(tags) : <<task_id, g>> \in links}
task_reminders(task_id) ==
    {r \in Ids(reminders) : reminders[r].task_id = task_id}

\* C25: no task that get_task returns, and so none that a list, view or
\* search returns, carries a soft-deleted tag in its tags or a soft-deleted
\* reminder in its reminders.
C25_NoDeletedNestedRows ==
    \A i \in 1..MaxTasks :
        get_task(i) # <<>> =>
            /\ task_tags(i) \cap Dead(tags) = {}
            /\ task_reminders(i) \cap Dead(reminders) = {}

\* ------------------------------------------------------------ failed requests
Errors == {NotFound, ValidationError, Conflict}

\* update_task bodies that carry a tag list together with another field:
\* a date that does not exist, a priority out of range, a project, a title.
ShortTagLists == {<<>>, <<1>>, <<2>>, <<2, 1>>}
MixedBodies ==
    {Body({"tag_ids", f}, {}, Blank, <<>>, PRIORITY_MAX + 1, Feb30, 1, 5, ids) :
        f \in {"due_date", "priority", "project_id", "title"},
        ids \in ShortTagLists}

\* C26: a request that ends in NotFound, ValidationError or Conflict leaves
\* every table and the task-tag links as they were; so does an update_task
\* with tag_ids and a due_date or priority that is rejected.
C26_FailedRequestChangesNothing ==
    /\ \A id \in 1..MaxTasks, d \in MixedBodies :
          update_task_status(id, d) \in Errors =>
              /\ update_task_tasks(id, d) = tasks
              /\ update_task_links(id, d) = links
    /\ \A t \in {Milk, Blank}, pr \in {0, PRIORITY_MAX + 1}, p \in 0..1, ids \in ShortTagLists :
          create_task_status(t, <<>>, pr, NoDate, p, ids) \in Errors =>
              /\ create_task_tasks(t, <<>>, pr, NoDate, p, ids) = tasks
              /\ create_task_links(t, <<>>, pr, NoDate, p, ids) = links
    /\ \A n \in {Work, <<"x">>, Blank}, c \in {Violet, NotHex} :
          /\ create_tag_status(n, c) \in Errors => create_tag_tags(n, c) = tags
          /\ \A id \in 1..MaxTags, sup \in {{"name"}, TagFields} :
                update_tag_status(id, sup, {}, n, c) \in Errors =>
                    update_tag_tags(id, sup, {}, n, c) = tags
    /\ \A id \in 1..MaxTasks :
          task_status(id) \in Errors =>
              delete_task_tasks(id) = tasks /\ complete_toggle_tasks(id) = tasks
    /\ \A id \in 1..MaxTags :
          delete_tag_status(id) \in Errors => delete_tag_tags(id) = tags
    /\ \A p \in 1..MaxProjects :
          bulk_complete_status(p) \in Errors => bulk_complete_tasks(p) = tasks

\* C26 witness: the first task is live and carries the first tag, a second
\* tag is live, and update_task of that task with the second tag and the
\* 30th of February is rejected; renaming the second tag to the first
\* one's name is a Conflict.
C26_Witness ==
    /\ 1 \in Live(tasks) /\ task_tags(1) = {1} /\ {1, 2} \subseteq Live(tags)
    /\ update_task_status(1, Body({"tag_ids", "due_date"}, {}, Blank, <<>>, 0, Feb30, 1, 5, <<2>>)) = ValidationError
    /\ update_tag_status(2, {"name"}, {}, tags[1].name, Violet) = Conflict

\* ------------------------------------------------------------ unreal dates
\* Dates that match YYYY-MM-DD and do not exist.
UnrealDates == {Feb30, <<13, 1>>}
DateBody(d) == [EmptyBody EXCEPT !.supplied = {"due_date"}, !.due_date = d]

\* C27: a due_date that names no day of the calendar is a ValidationError
\* of create_task and of update_task, and nothing is stored.
C27_UnrealDateIsValidationError ==
    \A d \in UnrealDates :
        /\ create_task_status(Milk, <<>>, 0, d, NULL, <<>>) = ValidationError
        /\ create_task_tasks(Milk, <<>>, 0, d, NULL, <<>>) = tasks
        /\ \A id \in Live(tasks) :
              /\ update_task_status(id, DateBody(d)) = ValidationError
              /\ update_task_tasks(id, DateBody(d)) = tasks

\* update_task reports such a date as ValidationError; create_task ends in
\* an uncaught ValueError; neither stores anything.
C27_UnrealDateStoresNothing ==
    \A d \in UnrealDates :
        /\ create_task_status(Milk, <<>>, 0, d, NULL, <<>>) = ServerError
        /\ create_task_tasks(Milk, <<>>, 0, d, NULL, <<>>) = tasks
        /\ create_task_links(Milk, <<>>, 0, d, NULL, <<>>) = links
        /\ \A id \in Live(tasks) :
              /\ update_task_status(id, DateBody(d)) = ValidationError
              /\ update_task_tasks(id, DateBody(d)) = tasks

\* ------------------------------------------------------------ sort_by
\* The values of TaskSortBy.
TaskSortBy ==
    {"sort_order", "sort_order_board", "created_at", "updated_at",
     "due_date", "due_time", "priority", "title"}

\* Strings that name no attribute of Task, and names of Task attributes
\* that TaskSortBy does not list.
UnknownNames == {"", "foo", "Priority", "sortorder"}
OtherAttributes == {"is_completed", "completed_at", "id", "metadata"}

SortedBy(sort_by, order) == Query({}, NULL, FALSE, sort_by, order, NULL, 0)

FallsBack(sort_by) ==
    \A order \in {"asc", "desc"} :
        /\ get_tasks_status(SortedBy(sort_by, order)) = OK
        /\ get_tasks(SortedBy(sort_by, order))
             = get_tasks(SortedBy("sort_order", order))

\* C28: get_tasks with a sort_by that TaskSortBy does not list, the name
\* of another Task attribute included, does not fail and returns the tasks
\* in the order of sort_by = sort_order.
C28_UnlistedSortByFallsBack ==
    \A sort_by \in (UnknownNames \cup OtherAttributes) \ TaskSortBy :
        FallsBack(sort_by)

\* A sort_by that names no attribute of Task falls back to sort_order.
C28_UnknownNameFallsBack == \A sort_by \in UnknownNames : FallsBack(sort_by)

\* ------------------------------------------------------------ reminders of deleted tasks
\* C29: create_reminder for a soft-deleted task is NotFound, as for an id
\* no task has, so no upcoming reminder belongs to a task deleted before
\* the reminder was created.
C29_NoReminderForDeletedTask ==
    /\ \A id \in (1..MaxTasks) \ Live(tasks) :
          create_reminder_status(id) = NotFound
    /\ \A r \in SeqToSet(get_upcoming_reminders) :
          tasks[reminders[r].task_id].deleted_at = NULL
            \/ reminders[r].created_at <= tasks[reminders[r].task_id].deleted_at

\* create_reminder is NotFound for an id no task has.
C29_NoReminderForMissingTask ==
    \A id \in (1..MaxTasks) \ Ids(tasks) : create_reminder_status(id) = NotFound

\* ------------------------------------------------------------ concurrent requests
\* A request of client c in two steps: it reads (the lookups and the
\* largest sort_order) and later writes and commits what it read; other
\* clients' steps may come in between. A request whose lookup fails ends
\* there and changes nothing.
begin_create_task(c, project_id) ==
    /\ requests[c] = Idle
    /\ project_id # NULL => validate_project_exists(project_id)
    /\ requests' = [requests EXCEPT ![c] =
                      [op |-> "create_task", task_id |-> NULL,
                       project_id |-> project_id, sort_order |-> next_order]]
    /\ UNCHANGED <<projects, tasks, tags, links, reminders, now, calls>>

commit_create_task(c) ==
    /\ requests[c].op = "create_task"
    /\ Len(tasks) < MaxTasks
    /\ tasks' = Append(tasks,
                       [NewTask(Milk, <<>>, 0, NoDate, requests[c].project_id)
                          EXCEPT !.sort_order = requests[c].sort_order])
    /\ requests' = [requests EXCEPT ![c] = Idle]
    /\ UNCHANGED <<projects, tags, links, reminders, now, calls>>

begin_update_task(c, task_id, project_id) ==
    /\ requests[c] = Idle
    /\ task_status(task_id) = OK
    /\ validate_project_exists(project_id)
    /\ requests' = [requests EXCEPT ![c] =
                      [op |-> "update_task", task_id |-> task_id,
                       project_id |-> project_id, sort_order |-> NULL]]
    /\ UNCHANGED <<projects, tasks, tags, links, reminders, now, calls>>

commit_update_task(c) ==
    /\ requests[c].op = "update_task"
    /\ tasks' = [tasks EXCEPT ![requests[c].task_id].project_id =
                                  requests[c].project_id]
    /\ requests' = [requests EXCEPT ![c] = Idle]
    /\ UNCHANGED <<projects, tags, links, reminders, now, calls>>

begin_delete_project(c, project_id) ==
    /\ requests[c] = Idle
    /\ delete_project_status(project_id) = OK
    /\ requests' = [requests EXCEPT ![c] =
                      [op |-> "delete_project", task_id |-> NULL,
                       project_id |-> project_id, sort_order |-> NULL]]
    /\ UNCHANGED <<projects, tasks, tags, links, reminders, now, calls>>

commit_delete_project(c) ==
    /\ requests[c].op = "delete_project"
    /\ tasks' = [i \in Ids(tasks) |->
                    IF i \in project_tasks(requests[c].project_id)
                    THEN [tasks[i] EXCEPT !.project_id = NULL]
                    ELSE tasks[i]]
    /\ projects' = [projects EXCEPT ![requests[c].project_id].deleted_at = now]
    /\ requests' = [requests EXCEPT ![c] = Idle]
    /\ UNCHANGED <<tags, links, reminders, now, calls>>

BeginCreateTask ==
    /\ Len(tasks) < FewTasks
    /\ \E c \in Clients, p \in 0..MaxProjects : begin_create_task(c, p)
CommitCreateTask ==
    /\ Len(tasks) < FewTasks
    /\ \E c \in Clients : commit_create_task(c)
BeginUpdateTask ==
    \E c \in Clients, id \in 1..MaxTasks, p \in 1..MaxProjects :
        begin_update_task(c, id, p)
CommitUpdateTask == \E c \in Clients : commit_update_task(c)
BeginDeleteProject ==
    \E c \in Clients, p \in 1..MaxProjects : begin_delete_project(c, p)
CommitDeleteProject == \E c \in Clients : commit_delete_project(c)

NextConcurrent ==
    \/ CreateFewProjects
    \/ BeginCreateTask \/ CommitCreateTask
    \/ BeginUpdateTask \/ CommitUpdateTask
    \/ BeginDeleteProject \/ CommitDeleteProject

SpecConcurrent == Init /\ [][NextConcurrent]_vars

\* The same requests one at a time: a request begins only when no other
\* is under way.
AllIdle == \A c \in Clients : requests[c] = Idle
NextSerial ==
    \/ CreateFewProjects
    \/ (AllIdle /\ (BeginCreateTask \/ BeginUpdateTask \/ BeginDeleteProject))
    \/ CommitCreateTask \/ CommitUpdateTask \/ CommitDeleteProject

SpecSerial == Init /\ [][NextSerial]_vars

\* C30: whatever the interleaving of the reads and writes of concurrent
\* requests, no task that is not deleted is assigned to a soft-deleted
\* project, and no two tasks have the same sort_order.
C30_InterleavingKeepsStoreConsistent ==
    /\ \A i \in Live(tasks) : tasks[i].project_id \notin Dead(projects)
    /\ \A i, j \in Ids(tasks) :
          i # j => tasks[i].sort_order # tasks[j].sort_order

\* A task that is not deleted is never left assigned to a soft-deleted
\* project.
C30_NoLiveTaskInDeletedProject ==
    \A i \in Live(tasks) : tasks[i].project_id \notin Dead(projects)

\* No two tasks have the same sort_order.
C30_SortOrdersDiffer ==
    \A i, j \in Ids(tasks) : i # j => tasks[i].sort_order # tasks[j].sort_order

====
